---- MODULE Spec2Model ----
(***************************************************************************)
(* A model of bot_streaming.py: the JSON catalogue store (load_data,       *)
(* save_data and the commands that mutate it), the rating modal, the       *)
(* paginated view and the voice-channel counter sweep.                     *)
(*                                                                         *)
(* Values.  A JSON object is a function from its keys (strings) to values. *)
(* Python's None is the string "None".  A rating average (a float rounded  *)
(* to two decimals) is kept as an integer number of hundredths.  A text    *)
(* that the code splits on ',' is kept as the sequence of its parts.       *)
(***************************************************************************)
EXTENDS Integers, Sequences, FiniteSets, TLC

VARIABLES
    files,          \* category -> the JSON file of DATA_FILES[category]
    resp,           \* the last handler that answered the user, and its answer
    view,           \* the PaginatedView instance
    voice_channels, \* guild.voice_channels: channel id -> its name
    tasks,          \* the running coroutines that sweep the voice channels
    loop,           \* periodic_voice_channel_update: running or stopped
    env             \* what the environment has done and may still do

vars == <<files, resp, view, voice_channels, tasks, loop, env>>

None == "None"

\* ------------------------------------------------------------------ dicts

EmptyDict == [k \in {} |-> None]

Has(d, k) == k \in DOMAIN d

Put(d, k, v) == [x \in (DOMAIN d) \cup {k} |-> IF x = k THEN v ELSE d[x]]

Pop(d, k) == [x \in (DOMAIN d) \ {k} |-> d[x]]

\* dict.get(k, default)
Get(d, k, default) == IF Has(d, k) THEN d[k] ELSE default

RECURSIVE SumSeq(_)
SumSeq(s) == IF s = <<>> THEN 0 ELSE Head(s) + SumSeq(Tail(s))

\* ------------------------------------------------------------- constants

DATA_FILES == {"films", "series", "jeux", "logiciels"}

\* ----------------------------------------------------------------- files
\* A file is missing, blank (empty or white space only), corrupt (its text
\* is not JSON), a list (its text is JSON, but the JSON list "data" and no
\* object) or valid (its text is the JSON object "data").

MissingFile == [kind |-> "missing", data |-> EmptyDict]
BlankFile   == [kind |-> "blank",   data |-> EmptyDict]
CorruptFile == [kind |-> "corrupt", data |-> EmptyDict]
ListFile    == [kind |-> "list",    data |-> <<1>>]
ValidFile(d) == [kind |-> "valid", data |-> d]

\* A migration that would leave the old url key in place.
MigrateEntryKeepsUrl(item_data) ==
    IF Has(item_data, "url") /\ ~Has(item_data, "seasons")
    THEN Put(item_data, "seasons",
             <<[number |-> 1, title |-> "Saison 1", url |-> item_data["url"]]>>)
    ELSE item_data

\* A load that would migrate nothing.
MigrateEntrySkips(item_data) == item_data

\* A migration that would add a first season to whatever entry has a url,
\* and leave the url in place.
MigrateEntryAppends(item_data) ==
    IF Has(item_data, "url")
    THEN Put(item_data, "seasons",
             Get(item_data, "seasons", <<>>) \o
             <<[number |-> 1, title |-> "Saison 1", url |-> item_data["url"]]>>)
    ELSE item_data

\* The migration of load_data, for one entry of the series file.
MigrateEntry(item_data) ==
    IF Has(item_data, "url") /\ ~Has(item_data, "seasons")
    THEN Pop(Put(item_data, "seasons",
                 <<[number |-> 1, title |-> "Saison 1", url |-> item_data["url"]]>>),
             "url")
    ELSE item_data

\* A load that would not create the file it misses.
load_data_NoCreate(category, file) ==
    CASE file.kind = "missing" -> [data |-> EmptyDict, file |-> file]
      [] file.kind = "blank"   -> [data |-> EmptyDict, file |-> file]
      [] file.kind = "corrupt" -> [data |-> EmptyDict, file |-> ValidFile(EmptyDict)]
      [] file.kind = "list"    -> [data |-> IF category = "series" THEN EmptyDict
                                            ELSE file.data,
                                   file |-> file]
      [] OTHER ->
            [data |-> IF category = "series"
                      THEN [t \in DOMAIN file.data |-> MigrateEntry(file.data[t])]
                      ELSE file.data,
             file |-> file]

\* A load that would write the migrated series back to their file.
load_data_SavesMigration(category, file) ==
    CASE file.kind = "missing" -> [data |-> EmptyDict, file |-> ValidFile(EmptyDict)]
      [] file.kind = "blank"   -> [data |-> EmptyDict, file |-> file]
      [] file.kind = "corrupt" -> [data |-> EmptyDict, file |-> ValidFile(EmptyDict)]
      [] file.kind = "list"    -> [data |-> IF category = "series" THEN EmptyDict
                                            ELSE file.data,
                                   file |-> file]
      [] OTHER ->
            LET data == IF category = "series"
                        THEN [t \in DOMAIN file.data |-> MigrateEntry(file.data[t])]
                        ELSE file.data
            IN  [data |-> data, file |-> ValidFile(data)]

\* load_data(category): what it returns and the file it leaves behind.
\* json.loads gives a list for a file that holds one: for series
\* data.items() then raises, which "except Exception" turns into {}; for
\* the other categories the list itself is returned.
load_data(category, file) ==
    CASE file.kind = "missing" -> [data |-> EmptyDict, file |-> ValidFile(EmptyDict)]
      [] file.kind = "blank"   -> [data |-> EmptyDict, file |-> file]
      [] file.kind = "corrupt" -> [data |-> EmptyDict, file |-> ValidFile(EmptyDict)]
      [] file.kind = "list"    -> [data |-> IF category = "series" THEN EmptyDict
                                            ELSE file.data,
                                   file |-> file]
      [] OTHER ->
            [data |-> IF category = "series"
                      THEN [t \in DOMAIN file.data |-> MigrateEntry(file.data[t])]
                      ELSE file.data,
             file |-> file]

\* save_data(category, data): the file afterwards.
save_data(category, data) == ValidFile(data)

\* The collection a file stands for: what a load of it returns.
Collection(category) == load_data(category, files[category]).data

\* ---------------------------------------------------------------- inputs
\* Titles as users type them, and str.lower() on them.

Titles == {"Dune", "dune", "Foo"}

Lower(s) ==
    CASE s = "Dune"  -> "dune"
      [] s = " Dune " -> " dune "
      [] s = "Foo"   -> "foo"
      [] s = "Drama" -> "drama"
      [] OTHER       -> s

\* str.strip() on the parts of a themes text.
Strip(s) ==
    CASE s = " Drama" -> "Drama"
      [] s = " Dune " -> "Dune"
      [] s = "  " -> ""
      [] s = " http://a" -> "http://a"
      [] OTHER -> s

\* A text split on ',': None and "" have no truth value ("if themes:").
NoText == <<>>
EmptyText == <<"">>
Truthy(text) == text # NoText /\ text # EmptyText

\* A themes list whose parts would be lower-cased but not stripped.
ParseThemesUnstripped(themes) == [i \in 1..Len(themes) |-> Lower(themes[i])]

\* [g.strip().lower() for g in themes.split(',')]
ParseThemes(themes) == [i \in 1..Len(themes) |-> Lower(Strip(themes[i]))]

\* The text of the rating modal's input (max_length = 1) and int() on it.
RatingTexts == {"0", "4", "5", "6", "x"}

IsIntText(v) == v \in {"0", "1", "2", "3", "4", "5", "6", "7", "8", "9"}

IntOf(v) ==
    CASE v = "0" -> 0 [] v = "1" -> 1 [] v = "2" -> 2 [] v = "3" -> 3
      [] v = "4" -> 4 [] v = "5" -> 5 [] v = "6" -> 6 [] v = "7" -> 7
      [] v = "8" -> 8 [] v = "9" -> 9

\* ---------------------------------------------------------------- rating

\* round(total / count, 2) in hundredths.  Python rounds the float to the
\* nearest hundredth; an exact tie needs a count that is a multiple of 8,
\* and a binary float then rounds to the even hundredth.
Round2(total, count) ==
    LET q == (100 * total) \div count
        r == (100 * total) % count
    IN  IF 2 * r > count THEN q + 1
        ELSE IF 2 * r < count THEN q
        ELSE IF q % 2 = 0 THEN q ELSE q + 1

\* An append that would not recompute the average.
RatedEntryKeepsAverage(entry, note) ==
    LET ratings == Append(Get(entry, "ratings", <<>>), note)
    IN  Put(Put(entry, "ratings", ratings), "rating",
            Get(entry, "rating", 100 * note))

\* A rating that would keep nothing of the entry but its ratings.
RatedEntryAlone(entry, note) ==
    LET ratings == Append(Get(entry, "ratings", <<>>), note)
    IN  [ratings |-> ratings, rating |-> Round2(SumSeq(ratings), Len(ratings))]

\* on_submit, lines 259-261: the entry after the note is appended.
RatedEntry(entry, note) ==
    LET ratings == Append(Get(entry, "ratings", <<>>), note)
    IN  Put(Put(entry, "ratings", ratings), "rating",
            Round2(SumSeq(ratings), Len(ratings)))

\* An on_submit that would accept any value up to 5.
on_submit_NoLowerBound(category, item_title, value, fs) ==
    IF ~IsIntText(value) THEN [files |-> fs, result |-> "not_integer"]
    ELSE IF ~(IntOf(value) <= 5)
    THEN [files |-> fs, result |-> "out_of_range"]
    ELSE LET loaded == load_data(category, fs[category])
             current_data == loaded.data
             key == Lower(item_title)
         IN  IF ~Has(current_data, key)
             THEN [files |-> [fs EXCEPT ![category] = loaded.file],
                   result |-> "not_found"]
             ELSE [files |-> [fs EXCEPT ![category] =
                                 save_data(category,
                                     Put(current_data, key,
                                         RatedEntry(current_data[key], IntOf(value))))],
                   result |-> "rated"]

\* RatingModal(category, item_title).on_submit with rating_input.value = value:
\* the files afterwards and the answer.
on_submit(category, item_title, value, fs) ==
    IF ~IsIntText(value) THEN [files |-> fs, result |-> "not_integer"]
    ELSE IF ~(1 <= IntOf(value) /\ IntOf(value) <= 5)
    THEN [files |-> fs, result |-> "out_of_range"]
    ELSE LET loaded == load_data(category, fs[category])
             current_data == loaded.data
             key == Lower(item_title)
         IN  IF ~Has(current_data, key)
             THEN [files |-> [fs EXCEPT ![category] = loaded.file],
                   result |-> "not_found"]
             ELSE [files |-> [fs EXCEPT ![category] =
                                 save_data(category,
                                     Put(current_data, key,
                                         RatedEntry(current_data[key], IntOf(value))))],
                   result |-> "rated"]

\* ------------------------------------------------------ catalogue commands
\* Each operator is the load-mutate-save part of a command: the files
\* afterwards and the answer.  No await separates the load from the save.

\* An add that would keep the title as typed for the key.
add_item_KeepsCase(category, titre, url, image, themes, fs) ==
    LET key == titre
        base == [url |-> url, image |-> image]
        data == IF Truthy(themes) THEN Put(base, "themes", ParseThemes(themes)) ELSE base
        current_data == load_data(category, fs[category]).data
    IN  [files |-> [fs EXCEPT ![category] = save_data(category, Put(current_data, key, data))],
         result |-> "added"]

\* add_item_command, lines 674-681 (addfilm, addjeu, addlogiciel).
add_item(category, titre, url, image, themes, fs) ==
    LET key == Lower(titre)
        base == [url |-> url, image |-> image]
        data == IF Truthy(themes) THEN Put(base, "themes", ParseThemes(themes)) ELSE base
        current_data == load_data(category, fs[category]).data
    IN  [files |-> [fs EXCEPT ![category] = save_data(category, Put(current_data, key, data))],
         result |-> "added"]

\* A delete that would drop the whole collection with the key.
del_item_Clears(category, titre, fs) ==
    LET key == Lower(titre)
        loaded == load_data(category, fs[category])
    IN  IF Has(loaded.data, key)
        THEN [files |-> [fs EXCEPT ![category] = save_data(category, EmptyDict)],
              result |-> "deleted"]
        ELSE [files |-> [fs EXCEPT ![category] = loaded.file], result |-> "not_found"]

\* del_item_command, lines 703-712 (delfilm, deljeu, dellogiciel, delseries).
del_item(category, titre, fs) ==
    LET key == Lower(titre)
        loaded == load_data(category, fs[category])
    IN  IF Has(loaded.data, key)
        THEN [files |-> [fs EXCEPT ![category] = save_data(category, Pop(loaded.data, key))],
              result |-> "deleted"]
        ELSE [files |-> [fs EXCEPT ![category] = loaded.file], result |-> "not_found"]

\* get_item_command, lines 716-725.  "entry" is the entry it hands to
\* make_item_embed, which shows meta.get('rating') and meta.get("themes").
get_item(category, titre, fs) ==
    LET loaded == load_data(category, fs[category])
        key == Lower(titre)
    IN  [files |-> [fs EXCEPT ![category] = loaded.file],
         result |-> IF Has(loaded.data, key) THEN "shown" ELSE "not_found",
         entry |-> IF Has(loaded.data, key) THEN loaded.data[key] ELSE EmptyDict]

\* A search that would lower-case the query without stripping it.
search_on_submit_Unstripped(category, value, fs) ==
    LET title == Lower(value)
        loaded == load_data(category, fs[category])
        found == title # "" /\ Has(loaded.data, title)
    IN  [files |-> [fs EXCEPT ![category] = loaded.file],
         result |-> IF found THEN "shown" ELSE "no_match",
         entry |-> IF found THEN loaded.data[title] ELSE EmptyDict]

\* ItemSearchModal.on_submit, lines 371-380.
search_on_submit(category, value, fs) ==
    LET title == Lower(Strip(value))
        loaded == load_data(category, fs[category])
        found == title # "" /\ Has(loaded.data, title)
    IN  [files |-> [fs EXCEPT ![category] = loaded.file],
         result |-> IF found THEN "shown" ELSE "no_match",
         entry |-> IF found THEN loaded.data[title] ELSE EmptyDict]

\* get_all_genres(category), lines 107-113: the themes of all entries.
get_all_genres(category, fs) ==
    LET loaded == load_data(category, fs[category])
        themes(k) == Get(loaded.data[k], "themes", <<>>)
    IN  [files |-> [fs EXCEPT ![category] = loaded.file],
         genres |-> UNION {{themes(k)[i] : i \in 1..Len(themes(k))} : k \in DOMAIN loaded.data}]

\* get_items_by_genre(category, genre), lines 115-120.
get_items_by_genre(category, genre, fs) ==
    LET loaded == load_data(category, fs[category])
        themes(k) == Get(loaded.data[k], "themes", <<>>)
        titles == {k \in DOMAIN loaded.data : \E i \in 1..Len(themes(k)) : themes(k)[i] = genre}
    IN  [files |-> [fs EXCEPT ![category] = loaded.file],
         items |-> [k \in titles |-> loaded.data[k]]]

\* "current.lower() in nom.lower()" for the texts typed so far.
Contains(nom, current) ==
    \/ current = ""
    \/ current = nom
    \/ current = "du" /\ nom = "dune"

\* autocomplete_item_title, lines 98-100: the titles offered (the first
\* five of them; the catalogues here hold fewer).
autocomplete_item_title(category, current, fs) ==
    LET loaded == load_data(category, fs[category])
    IN  [files |-> [fs EXCEPT ![category] = loaded.file],
         choices |-> {nom \in DOMAIN loaded.data : Contains(Lower(nom), Lower(current))}]

\* list.sort(key=lambda s: s.get('number', 0)): a stable sort.
RECURSIVE InsertSeason(_, _)
InsertSeason(sorted, s) ==
    IF sorted = <<>> THEN <<s>>
    ELSE IF sorted[Len(sorted)].number <= s.number THEN Append(sorted, s)
    ELSE Append(InsertSeason(SubSeq(sorted, 1, Len(sorted) - 1), s), sorted[Len(sorted)])

RECURSIVE SortSeasons(_)
SortSeasons(seasons) ==
    IF seasons = <<>> THEN <<>>
    ELSE InsertSeason(SortSeasons(SubSeq(seasons, 1, Len(seasons) - 1)), seasons[Len(seasons)])

\* The index of the first season numbered n, or 0.
SeasonIndex(seasons, n) ==
    IF \E i \in 1..Len(seasons) : seasons[i].number = n
    THEN CHOOSE i \in 1..Len(seasons) :
            /\ seasons[i].number = n
            /\ \A j \in 1..(i - 1) : seasons[j].number # n
    ELSE 0

\* Lines 811-824 and 927-939: the series entry a season command works on.
SeriesEntry(current_data, key, image, themes) ==
    IF ~Has(current_data, key)
    THEN [image |-> image,
          themes |-> IF Truthy(themes) THEN ParseThemes(themes) ELSE <<>>,
          seasons |-> <<>>]
    ELSE LET e1 == IF image # None /\ image # ""
                   THEN Put(current_data[key], "image", image) ELSE current_data[key]
         IN  IF Truthy(themes) THEN Put(e1, "themes", ParseThemes(themes)) ELSE e1

\* A season command that would append the season even when its number is
\* there already.
UpsertSeasonAppends(seasons, n, title, url) ==
    Append(seasons, [number |-> n, title |-> title, url |-> url])

\* Lines 826-843 and 967-982: a season list with season n set to (title, url).
\* addserieseason sorts after an append; importseries sorts once at the end.
UpsertSeason(seasons, n, title, url) ==
    LET i == SeasonIndex(seasons, n)
    IN  IF i # 0
        THEN [seasons EXCEPT ![i] = [@ EXCEPT !.url = url, !.title = title]]
        ELSE Append(seasons, [number |-> n, title |-> title, url |-> url])

\* f"Saison {n}"
SaisonTitle(n) ==
    CASE n = 0 -> "Saison 0" [] n = 1 -> "Saison 1" [] n = 2 -> "Saison 2"
      [] n = 3 -> "Saison 3" [] n = 4 -> "Saison 4" [] n = -1 -> "Saison -1"

\* addserieseason, lines 808-845.
addserieseason(titre, season_number, season_url, season_title, image, themes, fs) ==
    LET key == Lower(titre)
        current_data == load_data("series", fs["series"]).data
        entry == SeriesEntry(current_data, key, image, themes)
        title == IF season_title # None /\ season_title # ""
                 THEN season_title ELSE SaisonTitle(season_number)
        upserted == UpsertSeason(entry["seasons"], season_number, title, season_url)
        seasons == IF SeasonIndex(entry["seasons"], season_number) = 0
                   THEN SortSeasons(upserted) ELSE upserted
    IN  [files |-> [fs EXCEPT !["series"] =
                        save_data("series", Put(current_data, key, Put(entry, "seasons", seasons)))],
         result |-> "season_set"]

\* A season removal that would keep a series whose last season is gone.
delserieseasonKeepsEmpty(titre, season_number, fs) ==
    LET key == Lower(titre)
        loaded == load_data("series", fs["series"])
        current_data == loaded.data
    IN  IF ~Has(current_data, key)
        THEN [files |-> [fs EXCEPT !["series"] = loaded.file], result |-> "not_found"]
        ELSE LET seasons == Get(current_data[key], "seasons", <<>>)
                 kept == SelectSeq(seasons, LAMBDA s : s.number # season_number)
             IN  IF Len(kept) = Len(seasons)
                 THEN [files |-> [fs EXCEPT !["series"] = loaded.file],
                       result |-> "season_not_found"]
                 ELSE [files |-> [fs EXCEPT !["series"] =
                                     save_data("series",
                                         Put(current_data, key,
                                             Put(current_data[key], "seasons", kept)))],
                       result |-> IF kept = <<>> THEN "series_deleted" ELSE "season_deleted"]

\* delserieseason, lines 869-889.
delserieseason(titre, season_number, fs) ==
    LET key == Lower(titre)
        loaded == load_data("series", fs["series"])
        current_data == loaded.data
    IN  IF ~Has(current_data, key)
        THEN [files |-> [fs EXCEPT !["series"] = loaded.file], result |-> "not_found"]
        ELSE LET seasons == Get(current_data[key], "seasons", <<>>)
                 kept == SelectSeq(seasons, LAMBDA s : s.number # season_number)
             IN  IF Len(kept) = Len(seasons)
                 THEN [files |-> [fs EXCEPT !["series"] = loaded.file],
                       result |-> "season_not_found"]
                 ELSE [files |-> [fs EXCEPT !["series"] =
                                     save_data("series",
                                         IF kept = <<>> THEN Pop(current_data, key)
                                         ELSE Put(current_data, key,
                                                  Put(current_data[key], "seasons", kept)))],
                       result |-> IF kept = <<>> THEN "series_deleted" ELSE "season_deleted"]

\* A feed entry of importseries after strip(): either it holds no ':' or it
\* is season_part ':' url, split at the first ':'.
FeedEntry(season_part, url) == [colon |-> TRUE, season_part |-> season_part, url |-> url]
NoColonEntry == [colon |-> FALSE, season_part |-> "", url |-> ""]

\* season_part.strip().upper().replace('S', '')
SeasonNumberStr(season_part) ==
    CASE season_part = "S1" -> "1"
      [] season_part = "s2" -> "2"
      [] season_part = "S2" -> "2"
      [] season_part = "S0" -> "0"
      [] season_part = "Sx" -> "X"
      [] season_part = "S"  -> ""
      [] OTHER -> season_part

\* str.startswith("http://") or str.startswith("https://")
IsHttpUrl(url) == url \in {"http://a", "http://b", "https://c"}

\* importseries, lines 946-987: the season list after one feed entry.
ImportEntry(seasons, season_entry) ==
    IF ~season_entry.colon THEN seasons
    ELSE LET season_number_str == SeasonNumberStr(season_entry.season_part)
             season_url == Strip(season_entry.url)
         IN  IF ~IsIntText(season_number_str) THEN seasons
             ELSE IF ~IsHttpUrl(season_url) THEN seasons
             ELSE UpsertSeason(seasons, IntOf(season_number_str),
                               SaisonTitle(IntOf(season_number_str)), season_url)

\* Lines 947-963: the error importseries notes for a feed entry, "" for none.
ImportError(season_entry) ==
    IF ~season_entry.colon THEN "format"
    ELSE IF ~IsIntText(SeasonNumberStr(season_entry.season_part)) THEN "number"
    ELSE IF ~IsHttpUrl(Strip(season_entry.url)) THEN "url"
    ELSE ""

\* The errors list after the feed loop.
ImportErrors(seasons_list) ==
    SelectSeq([i \in 1..Len(seasons_list) |-> ImportError(seasons_list[i])],
              LAMBDA e : e # "")

\* A feed loop that would end at the first entry it cannot read.
RECURSIVE ImportEntriesStopAtError(_, _)
ImportEntriesStopAtError(seasons, seasons_list) ==
    IF seasons_list = <<>> THEN seasons
    ELSE IF ImportError(Head(seasons_list)) # "" THEN seasons
    ELSE ImportEntriesStopAtError(ImportEntry(seasons, Head(seasons_list)), Tail(seasons_list))

RECURSIVE ImportEntries(_, _)
ImportEntries(seasons, seasons_list) ==
    IF seasons_list = <<>> THEN seasons
    ELSE ImportEntries(ImportEntry(seasons, Head(seasons_list)), Tail(seasons_list))

\* An import that would leave the seasons in the order of the feed.
importseriesUnsorted(titre, saisons_data, image, themes, fs) ==
    LET key == Lower(titre)
        current_data == load_data("series", fs["series"]).data
        entry == SeriesEntry(current_data, key, image, themes)
        seasons == ImportEntries(entry["seasons"], saisons_data)
    IN  [files |-> [fs EXCEPT !["series"] =
                        save_data("series", Put(current_data, key, Put(entry, "seasons", seasons)))],
         result |-> "imported",
         errors |-> ImportErrors(saisons_data)]

\* importseries, lines 924-991.
importseries(titre, saisons_data, image, themes, fs) ==
    LET key == Lower(titre)
        current_data == load_data("series", fs["series"]).data
        entry == SeriesEntry(current_data, key, image, themes)
        seasons == SortSeasons(ImportEntries(entry["seasons"], saisons_data))
    IN  [files |-> [fs EXCEPT !["series"] =
                        save_data("series", Put(current_data, key, Put(entry, "seasons", seasons)))],
         result |-> "imported",
         errors |-> ImportErrors(saisons_data)]

\* ------------------------------------------------------------ store actions
\* The bounds of the store specification.

MaxRatings == 3

Answer(op, category, titre, arg, result) ==
    [op |-> op, category |-> category, titre |-> titre, arg |-> arg, result |-> result]

NoAnswer == Answer("none", "", "", "", "")

SameRest == UNCHANGED <<view, voice_channels, tasks, loop, env>>

\* A submission of the rating modal.  The modal was opened from the details
\* view of an entry, which may be gone by now.
Rate(category, item_title, value) ==
    LET r == on_submit(category, item_title, value, files)
        before == Collection(category)
    IN  /\ r.result = "rated" =>
              Len(Get(before[Lower(item_title)], "ratings", <<>>)) < MaxRatings
        /\ files' = r.files
        /\ resp' = Answer("rate", category, item_title, value, r.result)
        /\ SameRest

AddItem(category, titre, url, image, themes) ==
    LET r == add_item(category, titre, url, image, themes, files)
    IN  /\ files' = r.files
        /\ resp' = Answer("add", category, "", "", r.result)
        /\ SameRest

DelItem(category, titre) ==
    LET r == del_item(category, titre, files)
    IN  /\ files' = r.files
        /\ resp' = Answer("del", category, "", "", r.result)
        /\ SameRest

GetItem(category, titre) ==
    LET r == get_item(category, titre, files)
    IN  /\ files' = r.files
        /\ resp' = Answer("get", category, "", "", r.result)
        /\ SameRest

\* A call of load_data on its own: the answer names the kind of file the
\* load found and carries what it returned.
Load(category) ==
    LET r == load_data(category, files[category])
    IN  /\ files' = [files EXCEPT ![category] = r.file]
        /\ resp' = Answer("load", category, files[category].kind, r.data, "returned")
        /\ SameRest

\* A submission of the search modal; the answer carries the entry shown.
Search(category, value) ==
    LET r == search_on_submit(category, value, files)
    IN  /\ files' = r.files
        /\ resp' = Answer("search", category, value, r.entry, r.result)
        /\ SameRest

AddSeason(titre, season_number, season_url, season_title, image, themes) ==
    LET r == addserieseason(titre, season_number, season_url, season_title, image, themes, files)
    IN  /\ files' = r.files
        /\ resp' = Answer("addseason", "series", "", "", r.result)
        /\ SameRest

DelSeason(titre, season_number) ==
    LET r == delserieseason(titre, season_number, files)
    IN  /\ files' = r.files
        /\ resp' = Answer("delseason", "series", "", "", r.result)
        /\ SameRest

ImportSeries(titre, saisons_data, image, themes) ==
    LET r == importseries(titre, saisons_data, image, themes, files)
    IN  /\ files' = r.files
        /\ resp' = Answer("import", "series", "", r.errors, r.result)
        /\ SameRest

\* ----------------------------------------------------- handlers in flight
\* Command handlers are coroutines of one event loop: a handler runs from
\* one await to the next and no other handler runs in between.  load_data
\* and save_data read and write the file synchronously: they are no await.
\* A handler in flight is at "deferred" (add_item_command awaits
\* interaction.response.defer before it loads) or at "answering" (it has
\* saved and awaits the sending of its answer).  "arrived" remembers the
\* file as it was when the handler was called.

HandlerIds == {"A", "B"}

IdleHandler ==
    [pc |-> "idle", op |-> "none", titre |-> "", value |-> "",
     arrived |-> MissingFile, result |-> ""]

SameWorld == UNCHANGED <<view, voice_channels, loop, env>>

\* add_item_command up to its first await, line 672.
AddArrives(h, category, titre) ==
    /\ tasks[h].pc = "idle"
    /\ tasks' = [tasks EXCEPT ![h] = [pc |-> "deferred", op |-> "add", titre |-> titre,
                                      value |-> "", arrived |-> files[category],
                                      result |-> ""]]
    /\ UNCHANGED <<files, resp>>
    /\ SameWorld

\* An add handler that would save onto the collection as it was when the
\* handler was called, as if it had loaded before it deferred.
AddResumesFromArrival(h, category) ==
    LET stale == [files EXCEPT ![category] = tasks[h].arrived]
        r == add_item(category, tasks[h].titre, "u1", None, NoText, stale)
    IN  /\ tasks[h].pc = "deferred"
        /\ files' = r.files
        /\ tasks' = [tasks EXCEPT ![h].pc = "answering", ![h].result = r.result]
        /\ UNCHANGED resp
        /\ SameWorld

\* add_item_command from the return of defer to its next await, lines 674-692.
AddResumes(h, category) ==
    LET r == add_item(category, tasks[h].titre, "u1", None, NoText, files)
    IN  /\ tasks[h].pc = "deferred"
        /\ files' = r.files
        /\ tasks' = [tasks EXCEPT ![h].pc = "answering", ![h].result = r.result]
        /\ UNCHANGED resp
        /\ SameWorld

\* A rating handler that would save onto the collection as it was when a
\* handler still in flight was called, as if an await stood between its
\* load and its save.
RateSubmittedFromArrival(h, category, item_title, value) ==
    LET others == {g \in HandlerIds \ {h} : tasks[g].pc = "answering"}
        stale == IF others = {} THEN files
                 ELSE [files EXCEPT ![category] = tasks[CHOOSE g \in others : TRUE].arrived]
        r == on_submit(category, item_title, value, stale)
    IN  /\ tasks[h].pc = "idle"
        /\ files' = r.files
        /\ tasks' = [tasks EXCEPT ![h] = [pc |-> "answering", op |-> "rate",
                                          titre |-> item_title, value |-> value,
                                          arrived |-> files[category],
                                          result |-> r.result]]
        /\ UNCHANGED resp
        /\ SameWorld

\* RatingModal.on_submit up to its first await, lines 247-273.
RateSubmitted(h, category, item_title, value) ==
    LET r == on_submit(category, item_title, value, files)
    IN  /\ tasks[h].pc = "idle"
        /\ files' = r.files
        /\ tasks' = [tasks EXCEPT ![h] = [pc |-> "answering", op |-> "rate",
                                          titre |-> item_title, value |-> value,
                                          arrived |-> files[category],
                                          result |-> r.result]]
        /\ UNCHANGED resp
        /\ SameWorld

\* The answer of a handler has been sent.
HandlerAnswered(h, category) ==
    /\ tasks[h].pc = "answering"
    /\ tasks' = [tasks EXCEPT ![h].pc = "done"]
    /\ resp' = Answer(tasks[h].op, category, tasks[h].titre, tasks[h].value, tasks[h].result)
    /\ UNCHANGED files
    /\ SameWorld

\* ------------------------------------------------- voice channel counters

\* VOICE_CHANNEL_MAP, in the order its items() are visited.
CategoryOrder == <<"films", "series", "jeux", "logiciels">>

\* A channel name, as much of it as the sweep's pattern and its comparison
\* with new_name can tell apart: which base name it starts with (named by
\* its category), and its form.  "exact" is f"{base} : {count}" to the
\* letter; "loose" is the same base and number in another letter case or
\* spacing ("films disponibles:3"); "bare" is the base name alone; "other"
\* is any name the pattern rejects.
ChannelName(base, form, count) == [base |-> base, form |-> form, count |-> count]
OtherName == ChannelName("", "other", 0)
Deleted == ChannelName("", "deleted", 0)

\* A label that would not follow the count.
NewNameWithoutCount(category, count) == ChannelName(category, "exact", 0)

\* f"{channel_base_name} : {count}"
NewName(category, count) == ChannelName(category, "exact", count)

\* pattern.match(vc.name), line 1026: base, optional " : digits", any case.
PatternMatch(name, category) ==
    name.base = category /\ name.form \in {"exact", "loose", "bare"}

\* Lines 1028-1032: the first channel the pattern matches, or 0.
FirstMatch(chans, category) ==
    IF \E i \in 1..Len(chans) : PatternMatch(chans[i], category)
    THEN CHOOSE i \in 1..Len(chans) :
            /\ PatternMatch(chans[i], category)
            /\ \A j \in 1..(i - 1) : ~PatternMatch(chans[j], category)
    ELSE 0

\* A coroutine that sweeps: where it is, the call it awaits, and what it
\* has seen so far (calls: the rename and create calls this sweep issued;
\* all_ok: none of them failed; alone: nobody else changed the catalogue or
\* the channels since this sweep started; second: this sweep started after
\* another had completed alone, with nothing changed since that one
\* started; second_ok: and every call of that one had succeeded).
IdleTask ==
    [pc |-> "idle", idx |-> 0, target |-> 0, new_name |-> OtherName, mutated |-> FALSE,
     calls |-> 0, all_ok |-> TRUE, alone |-> FALSE, second |-> FALSE, second_ok |-> FALSE]

TaskIds == {"periodic", "handler"}

NoTasks == [p \in TaskIds |-> IdleTask]

\* What lies outside the bot: how many faults (failed calls, edits by
\* hand) are still to come, whether failures and changes have ceased (quiet), and whether a sweep has
\* completed alone with nothing changed since it started (swept), every call
\* of it having succeeded (swept_ok).
NoEnv == [faults |-> 0, quiet |-> FALSE, swept |-> FALSE, swept_ok |-> FALSE]

\* A sweep that would rename whatever channel it finds, without comparing
\* its name with new_name.
SweepFromAlwaysRenames(idx, fs, chans) ==
    IF idx > Len(CategoryOrder)
    THEN [pc |-> "done", idx |-> idx, target |-> 0, new_name |-> OtherName]
    ELSE LET category == CategoryOrder[idx]
             count == Cardinality(DOMAIN load_data(category, fs[category]).data)
             existing_channel == FirstMatch(chans, category)
             new_name == NewName(category, count)
         IN  IF existing_channel # 0
             THEN [pc |-> "edit", idx |-> idx, target |-> existing_channel,
                   new_name |-> new_name]
             ELSE [pc |-> "create", idx |-> idx, target |-> 0, new_name |-> new_name]

\* update_voice_channel_names_for_guild from category number idx on, up
\* to its next await (an edit or a create) or its end: where it stops.
RECURSIVE SweepFrom(_, _, _)
SweepFrom(idx, fs, chans) ==
    IF idx > Len(CategoryOrder)
    THEN [pc |-> "done", idx |-> idx, target |-> 0, new_name |-> OtherName]
    ELSE LET category == CategoryOrder[idx]
             count == Cardinality(DOMAIN load_data(category, fs[category]).data)
             existing_channel == FirstMatch(chans, category)
             new_name == NewName(category, count)
         IN  IF existing_channel # 0
             THEN IF chans[existing_channel] # new_name
                  THEN [pc |-> "edit", idx |-> idx, target |-> existing_channel,
                        new_name |-> new_name]
                  ELSE SweepFrom(idx + 1, fs, chans)
             ELSE [pc |-> "create", idx |-> idx, target |-> 0, new_name |-> new_name]

\* The files once the sweep has loaded the categories numbered first..last
\* (line 1023: a load writes a missing or unreadable file anew).
Loads(fs, first, last) ==
    [c \in DATA_FILES |->
        IF \E i \in first..last : i <= Len(CategoryOrder) /\ CategoryOrder[i] = c
        THEN load_data(c, fs[c]).file ELSE fs[c]]

\* What the awaited call can do.  "ok": Discord did it (it cannot, and
\* answers 404, an HTTPException, once the channel is deleted).  "Forbidden" and
\* "HTTPException": the two exceptions the edit branch catches.  "Other":
\* any other exception (the HTTP client re-raises OSError, and a request can
\* time out), which only the create branch catches.
Outcomes == {"ok", "Forbidden", "HTTPException", "Other"}

\* Lines 1038-1044 and 1048-1054: does the sweep go on after this outcome?
Caught(pc, outcome) ==
    \/ outcome \in {"ok", "Forbidden", "HTTPException"}
    \/ pc = "create"

\* Everybody else's view of a change to the catalogue or the channels.
Disturbed(ts, actor) ==
    [p \in TaskIds |->
        IF p = actor THEN ts[p]
        ELSE [ts[p] EXCEPT !.alone = FALSE, !.second = FALSE, !.second_ok = FALSE]]

Unswept(e) == [e EXCEPT !.swept = FALSE, !.swept_ok = FALSE]

\* The task p once its sweep has run from idx to stop (a result of SweepFrom).
Advance(task, stop) ==
    [task EXCEPT !.pc = stop.pc, !.idx = stop.idx, !.target = stop.target,
                 !.new_name = stop.new_name,
                 !.calls = IF stop.pc \in {"edit", "create"} THEN @ + 1 ELSE @]

\* A sweep that ends tells the next one whether it ran alone and unfailed.
Ended(e, task) ==
    IF task.pc = "done" /\ task.alone
    THEN [e EXCEPT !.swept = TRUE, !.swept_ok = task.all_ok]
    ELSE e

\* update_voice_channel_names_for_guild is entered by task p.
StartSweep(p, mutated) ==
    \E stop \in {SweepFrom(1, files, voice_channels)} :
    \E task \in {Advance([IdleTask EXCEPT !.mutated = mutated, !.alone = TRUE,
                                          !.second = env.swept,
                                          !.second_ok = env.swept_ok], stop)} :
        /\ files' = Loads(files, 1, stop.idx)
        /\ tasks' = [tasks EXCEPT ![p] = task]
        /\ env' = Ended(env, task)
        /\ UNCHANGED <<voice_channels, resp, view>>

\* The channels once the call of task returned with outcome.
Effect(task, outcome, chans) ==
    IF outcome # "ok" THEN chans
    ELSE IF task.pc = "edit" THEN [chans EXCEPT ![task.target] = task.new_name]
    ELSE Append(chans, task.new_name)

\* The channel the task's edit is for has been deleted since.
Gone(task, chans) == task.pc = "edit" /\ chans[task.target] = Deleted

\* The call task p awaits returns or raises.
CallReturns(p, outcome) ==
    /\ tasks[p].pc \in {"edit", "create"}
    /\ IF Gone(tasks[p], voice_channels)
       THEN outcome = "HTTPException"
       ELSE outcome # "ok" => ~env.quiet /\ env.faults > 0
    /\ \E task \in {[tasks[p] EXCEPT !.all_ok = (outcome = "ok") /\ @]} :
       \E chans \in {Effect(task, outcome, voice_channels)} :
       \E stop \in {SweepFrom(task.idx + 1, files, chans)} :
       \E next \in {IF Caught(task.pc, outcome) THEN Advance(task, stop)
                    ELSE [task EXCEPT !.pc = "failed"]} :
          /\ voice_channels' = chans
          /\ files' = IF Caught(task.pc, outcome)
                      THEN Loads(files, task.idx + 1, stop.idx) ELSE files
          /\ tasks' = [(IF chans # voice_channels THEN Disturbed(tasks, p) ELSE tasks)
                          EXCEPT ![p] = next]
          /\ env' = Ended(IF outcome = "ok" THEN Unswept(env)
                          ELSE IF Gone(task, voice_channels) THEN env
                          ELSE [env EXCEPT !.faults = @ - 1], next)
    /\ UNCHANGED <<loop, resp, view>>

Free(p) == tasks[p].pc \in {"idle", "done", "failed"}

\* on_ready, lines 1112-1123: the loop is started and the guild is swept.
OnReady ==
    /\ loop = "stopped"
    /\ Free("handler")
    /\ loop' = "running"
    /\ StartSweep("handler", FALSE)

\* A loop that would run its body a single time.
PeriodicSweepOnce ==
    /\ loop = "running"
    /\ tasks["periodic"].pc = "idle"
    /\ UNCHANGED loop
    /\ StartSweep("periodic", FALSE)

\* periodic_voice_channel_update: an iteration of the loop.  An iteration
\* that raised is run again by the loop.
PeriodicSweep ==
    /\ loop = "running"
    /\ Free("periodic")
    /\ UNCHANGED loop
    /\ StartSweep("periodic", FALSE)

\* A command's load-mutate-save (r is its result); the handler then awaits
\* the sending of its answer.  One command is in flight at a time.
Command(r) ==
    /\ Free("handler")
    /\ loop = "running"
    /\ ~env.quiet
    /\ files' = r.files
    /\ LET mutated == r.result \notin {"not_found", "season_not_found"}
           changed == \E c \in DATA_FILES :
                         load_data(c, r.files[c]).data # load_data(c, files[c]).data
           ts == IF changed THEN Disturbed(tasks, "handler") ELSE tasks
       IN  /\ tasks' = [ts EXCEPT !["handler"] =
                          [IdleTask EXCEPT !.pc = IF mutated THEN "respond" ELSE "done",
                                           !.mutated = mutated]]
           /\ env' = IF changed THEN Unswept(env) ELSE env
    /\ UNCHANGED <<voice_channels, loop, resp, view>>

\* The answer is sent (followup.send or response.send_message) and the
\* search embed refreshed, then the guild is swept; or the sending raises
\* and the handler ends there.
AnswerSent(raises) ==
    /\ tasks["handler"].pc = "respond"
    /\ UNCHANGED loop
    /\ IF raises
       THEN /\ ~env.quiet
            /\ env.faults > 0
            /\ tasks' = [tasks EXCEPT !["handler"].pc = "failed"]
            /\ env' = [env EXCEPT !.faults = @ - 1]
            /\ UNCHANGED <<files, voice_channels, resp, view>>
       ELSE StartSweep("handler", TRUE)

\* What a member with the right to manage channels does by hand.
ExternalEdit(chans) ==
    /\ ~env.quiet
    /\ env.faults > 0
    /\ chans # voice_channels
    /\ voice_channels' = chans
    /\ env' = [Unswept(env) EXCEPT !.faults = @ - 1]
    /\ tasks' = Disturbed(tasks, "")
    /\ UNCHANGED <<files, loop, resp, view>>

\* From here on nothing fails and nobody but the sweeps acts.
Settle ==
    /\ ~env.quiet
    /\ env' = [env EXCEPT !.quiet = TRUE]
    /\ UNCHANGED <<files, voice_channels, tasks, loop, resp, view>>

\* ------------------------------------------------------------ specifications

\* A series entry as the version before seasons wrote it.
LegacyPlain == [url |-> "u1"]
LegacyRated == [url |-> "u2", image |-> "i1", themes |-> <<"drama">>,
                ratings |-> <<4, 5>>, rating |-> 450]

StoreCats == {"films", "series"}
FilmTitles == {"Dune", "dune"}
SerieTitles == {"Foo"}
TitlesOf(category) == IF category = "series" THEN SerieTitles ELSE FilmTitles
RatingTextsOf(category) == IF category = "series" THEN {"0", "5"} ELSE RatingTexts
ThemeTexts == {NoText, <<"scifi", " Drama">>}
Feeds == {<<FeedEntry("S1", " http://a"), FeedEntry("s2", "http://a")>>,
          <<NoColonEntry, FeedEntry("Sx", "http://a"), FeedEntry("S2", "ftp://c")>>}

NoView == [state |-> "none"]
NoChannels == <<>>

InitRest ==
    /\ view = NoView
    /\ voice_channels = NoChannels
    /\ tasks = NoTasks
    /\ loop = "stopped"
    /\ env = NoEnv

Init ==
    /\ \E film \in {MissingFile, BlankFile, CorruptFile, ValidFile(EmptyDict)},
          serie \in {MissingFile, CorruptFile, ValidFile(EmptyDict),
                     ValidFile([t \in {"foo"} |-> LegacyPlain]),
                     ValidFile([t \in {"foo"} |-> LegacyRated])} :
          files = [c \in DATA_FILES |->
                      CASE c = "films" -> film [] c = "series" -> serie [] OTHER -> MissingFile]
    /\ resp = NoAnswer
    /\ InitRest

Next ==
    \/ \E c \in StoreCats : \E t \in TitlesOf(c), v \in RatingTextsOf(c) : Rate(c, t, v)
    \/ \E t \in FilmTitles : AddItem("films", t, "u1", None, NoText)
    \/ \E c \in StoreCats : \E t \in TitlesOf(c) : DelItem(c, t)
    \/ \E c \in StoreCats : \E t \in TitlesOf(c) : GetItem(c, t)
    \/ \E t \in SerieTitles, n \in {1, 2} : AddSeason(t, n, "http://a", None, None, NoText)
    \/ \E t \in SerieTitles, n \in {1, 2} : DelSeason(t, n)
    \/ \E t \in SerieTitles, feed \in Feeds : ImportSeries(t, feed, None, NoText)

Spec == Init /\ [][Next]_vars

\* The series commands on one series.  A season number is any int the
\* command is given; a feed is a list of "S<n>:<url>" entries.
SeasonNumbers == {-1, 0, 1, 2}

\* f"S{n}"
SeasonPart(n) == CASE n = 0 -> "S0" [] n = 1 -> "S1" [] n = 2 -> "S2"

\* The feed that names the seasons pairs = <<n, url>>, ... in this order.
FeedOf(pairs) == [i \in 1..Len(pairs) |-> FeedEntry(SeasonPart(pairs[i][1]), pairs[i][2])]

WellFormedPairs ==
    {<< <<1, "http://a">> >>,
     << <<2, "http://b">>, <<1, "http://a">> >>,
     << <<1, "https://c">>, <<2, "http://a">> >>}

SeasonFeeds ==
    {FeedOf(pairs) : pairs \in WellFormedPairs} \cup
    {FeedOf(<< <<0, "http://a">> >>),
     FeedOf(<< <<2, "http://a">>, <<1, "http://a">>, <<2, "http://b">> >>),
     <<NoColonEntry, FeedEntry("Sx", "http://a"), FeedEntry("S2", "ftp://c")>>,
     <<FeedEntry("S2", "ftp://c"), FeedEntry("s2", " http://a"), NoColonEntry,
       FeedEntry("S1", "https://c"), FeedEntry("Sx", "http://a")>>}

InitSeasons ==
    /\ \E serie \in {MissingFile, ValidFile(EmptyDict),
                      ValidFile([t \in {"foo"} |-> LegacyPlain])} :
          files = [c \in DATA_FILES |-> IF c = "series" THEN serie ELSE MissingFile]
    /\ resp = NoAnswer
    /\ InitRest

NextSeasons ==
    \/ \E t \in SerieTitles, n \in SeasonNumbers :
          AddSeason(t, n, "http://a", None, None, NoText)
    \/ \E t \in SerieTitles, n \in SeasonNumbers : DelSeason(t, n)
    \/ \E t \in SerieTitles, feed \in SeasonFeeds : ImportSeries(t, feed, None, NoText)

SpecSeasons == InitSeasons /\ [][NextSeasons]_vars

\* The film commands on two films, with and without themes.
InitFilms ==
    /\ \E film \in {MissingFile, ValidFile(EmptyDict)} :
          files = [c \in DATA_FILES |-> IF c = "films" THEN film ELSE MissingFile]
    /\ resp = NoAnswer
    /\ InitRest

NextFilms ==
    \/ \E t \in {"Dune", "Foo"}, themes \in ThemeTexts : AddItem("films", t, "u1", None, themes)
    \/ \E t \in FilmTitles : GetItem("films", t)
    \/ \E t \in FilmTitles, v \in {"4", "5"} : Rate("films", t, v)
    \/ \E t \in {"Dune", "Foo"} : DelItem("films", t)

SpecFilms == InitFilms /\ [][NextFilms]_vars

\* Searches by title on a films file of any kind, while films are added,
\* rated and deleted.
Queries == {"", "  ", " Dune ", "dune", "Foo"}

InitSearch ==
    /\ \E film \in {MissingFile, BlankFile, CorruptFile, ValidFile(EmptyDict)} :
          files = [c \in DATA_FILES |-> IF c = "films" THEN film ELSE MissingFile]
    /\ resp = NoAnswer
    /\ InitRest

NextSearch ==
    \/ \E q \in Queries : Search("films", q)
    \/ \E t \in {"Dune", "Foo"} : AddItem("films", t, "u1", None, NoText)
    \/ \E v \in {"4", "5"} : Rate("films", "Dune", v)
    \/ \E t \in {"Dune", "Foo"} : DelItem("films", t)

SpecSearch == InitSearch /\ [][NextSearch]_vars

\* Deletes of films, series and seasons, with two titles in each category.
DelFilmTitles == {"Dune", "Foo"}
DelSerieTitles == {"Foo", "Drama"}
DelTitlesOf(category) == IF category = "series" THEN DelSerieTitles ELSE DelFilmTitles

InitDelete ==
    /\ \E film \in {MissingFile, CorruptFile, ValidFile(EmptyDict)},
          serie \in {MissingFile, ValidFile([t \in {"foo"} |-> LegacyPlain])} :
          files = [c \in DATA_FILES |->
                      CASE c = "films" -> film [] c = "series" -> serie [] OTHER -> MissingFile]
    /\ resp = NoAnswer
    /\ InitRest

NextDelete ==
    \/ \E t \in DelFilmTitles : AddItem("films", t, "u1", None, NoText)
    \/ \E t \in DelSerieTitles, n \in {1, 2} : AddSeason(t, n, "http://a", None, None, NoText)
    \/ \E c \in StoreCats : \E t \in DelTitlesOf(c) : DelItem(c, t)
    \/ \E t \in DelSerieTitles, n \in {1, 2} : DelSeason(t, n)

SpecDelete == InitDelete /\ [][NextDelete]_vars

\* Loads of the four categories, whatever their files hold.
FilesFound ==
    {MissingFile, BlankFile, CorruptFile, ListFile, ValidFile(EmptyDict),
     ValidFile([t \in {"foo"} |-> LegacyPlain])}

InitLoad ==
    /\ files \in [DATA_FILES -> FilesFound]
    /\ resp = NoAnswer
    /\ InitRest

NextLoad == \E c \in DATA_FILES : Load(c)

SpecLoad == InitLoad /\ [][NextLoad]_vars

\* Two handlers in flight on the films file.  A film is rated, other films
\* are added.
AddTitles == {"Foo", "Drama"}

InitHandlers ==
    /\ \E film \in {MissingFile, ValidFile([t \in {"dune"} |-> [url |-> "u1", image |-> None]])} :
          files = [c \in DATA_FILES |-> IF c = "films" THEN film ELSE MissingFile]
    /\ resp = NoAnswer
    /\ tasks = [h \in HandlerIds |-> IdleHandler]
    /\ view = NoView
    /\ voice_channels = NoChannels
    /\ loop = "stopped"
    /\ env = NoEnv

NextHandlers ==
    \/ \E h \in HandlerIds, t \in AddTitles : AddArrives(h, "films", t)
    \/ \E h \in HandlerIds : AddResumes(h, "films")
    \/ \E h \in HandlerIds, v \in {"4", "6"} : RateSubmitted(h, "films", "Dune", v)
    \/ \E h \in HandlerIds : HandlerAnswered(h, "films")

SpecHandlers == InitHandlers /\ [][NextHandlers]_vars

\* ----------------------------------------------------------- PaginatedView

\* The keys the model uses, in the order sorted() gives them.
KeyOrder ==
    <<"a_b", "dune", "foo", "k01", "k02", "k03", "k04", "k05",
      "k06", "k07", "k08", "k09", "k10", "k11", "k12",
      "k13", "k14", "k15", "k16", "k17", "k18", "k19",
      "k20", "k21", "k22", "k23", "k24", "view_item_films_x", "x">>

Rank(k) == CHOOSE i \in 1..Len(KeyOrder) : KeyOrder[i] = k

\* sorted(keys)
RECURSIVE SortedKeys(_)
SortedKeys(keys) ==
    IF keys = {} THEN <<>>
    ELSE LET first == CHOOSE k \in keys : \A other \in keys : Rank(k) <= Rank(other)
         IN  <<first>> \o SortedKeys(keys \ {first})

Min(a, b) == IF a <= b THEN a ELSE b
Max(a, b) == IF a >= b THEN a ELSE b

\* seq[start:end] as Python slices: a negative index counts from the end,
\* and both ends are clamped to the sequence.
PySlice(seq, start, end) ==
    LET norm(i) == IF i < 0 THEN Max(Len(seq) + i, 0) ELSE Min(i, Len(seq))
    IN  IF norm(start) < norm(end) THEN SubSeq(seq, norm(start) + 1, norm(end)) ELSE <<>>

\* The page size both callers pass (lines 415 and 460).
ITEMS_PER_PAGE == 10

\* (len(self.item_titles) + self.items_per_page - 1) // self.items_per_page
TotalPages(count, items_per_page) == (count + items_per_page - 1) \div items_per_page

\* self.message: the message that shows the view, with the components it
\* shows; None until the view has been sent.
NoMessage == [sent |-> FALSE, components |-> <<>>]

\* message.edit(view=self) and response.edit_message(view=self): the
\* message shows the components of the view.
ShowView(v) == [v EXCEPT !.message = [sent |-> TRUE, components |-> v.children]]

\* PaginatedView.__init__
PaginatedView(items, items_per_page, data_file_category) ==
    [state |-> "active",
     items |-> items,
     item_titles |-> SortedKeys(DOMAIN items),
     items_per_page |-> items_per_page,
     data_file_category |-> data_file_category,
     current_page |-> 0,
     children |-> <<>>,
     footer |-> [page |-> 0, total |-> 0],
     page_items |-> <<>>,
     message |-> NoMessage]

Button(custom_id, disabled) == [custom_id |-> custom_id, disabled |-> disabled]

\* A custom_id is a text, held as the sequence of its pieces: a piece is
\* the text "view_item_<category>_" or a text that holds no part of one.
\* f"view_item_{self.data_file_category}_"
ViewItemPrefix(category) ==
    CASE category = "films"     -> "view_item_films_"
      [] category = "series"    -> "view_item_series_"
      [] category = "jeux"      -> "view_item_jeux_"
      [] category = "logiciels" -> "view_item_logiciels_"

\* The pieces of a title, and the text of a sequence of pieces.
Pieces(text) ==
    CASE text = "" -> <<>>
      [] text = "view_item_films_x" -> <<"view_item_films_", "x">>
      [] OTHER -> <<text>>

Join(pieces) ==
    CASE pieces = <<>> -> ""
      [] pieces = <<"view_item_films_", "x">> -> "view_item_films_x"
      [] Len(pieces) = 1 -> pieces[1]

\* f"view_item_{self.data_file_category}_{title.lower()}"
ViewItemId(category, title) == <<ViewItemPrefix(category)>> \o Pieces(Lower(title))

\* custom_id.startswith(f"view_item_{self.data_file_category}_")
IsViewItemId(category, custom_id) ==
    custom_id # <<>> /\ custom_id[1] = ViewItemPrefix(category)

\* custom_id.replace(f"view_item_{self.data_file_category}_", ""): every
\* occurrence of the prefix is removed.
ItemTitleOf(category, custom_id) ==
    Join(SelectSeq(custom_id, LAMBDA piece : piece # ViewItemPrefix(category)))

\* A page that would also take the first title of the next page.
PageItemsOneMore(v) ==
    PySlice(v.item_titles, v.current_page * v.items_per_page,
            v.current_page * v.items_per_page + v.items_per_page + 1)

\* self.item_titles[start_index:end_index]
PageItems(v) ==
    PySlice(v.item_titles, v.current_page * v.items_per_page,
            v.current_page * v.items_per_page + v.items_per_page)

\* Page buttons that would be there for a single page too.
NavButtonsAlways(v, total_pages) ==
    <<Button(<<"prev_page">>, v.current_page = 0),
      Button(<<"next_page">>, v.current_page >= total_pages - 1)>>

\* create_page_embed, lines 165-169: the page buttons.
NavButtons(v, total_pages) ==
    IF total_pages > 1
    THEN <<Button(<<"prev_page">>, v.current_page = 0),
           Button(<<"next_page">>, v.current_page >= total_pages - 1)>>
    ELSE <<>>

\* PaginatedView.create_page_embed: the view with its footer and buttons rebuilt.
create_page_embed(v) ==
    LET total_pages == TotalPages(Len(v.item_titles), v.items_per_page)
        nav == NavButtons(v, total_pages)
        page_items == PageItems(v)
    IN  [v EXCEPT !.footer = [page |-> v.current_page + 1, total |-> total_pages],
                  !.page_items = page_items,
                  !.children = nav \o [i \in 1..Len(page_items) |->
                                          Button(ViewItemId(v.data_file_category, page_items[i]), FALSE)]]

\* A next token that would not stop at the last page.
NextPageUnclamped(current_page, total_pages) == current_page + 1

\* A prev token that would not stop at the first page.
PrevPageUnclamped(current_page) == current_page - 1

\* interaction_check, lines 207-210.
PrevPage(current_page) == Max(0, current_page - 1)

NextPage(current_page, total_pages) == Min(total_pages - 1, current_page + 1)

\* interaction_check for custom_id "prev_page" or "next_page".
Navigate(v, custom_id) ==
    LET total_pages == TotalPages(Len(v.item_titles), v.items_per_page)
    IN  create_page_embed(
            [v EXCEPT !.current_page = IF custom_id = "prev_page" THEN PrevPage(@)
                                       ELSE NextPage(@, total_pages)])

\* PaginatedView.on_timeout
on_timeout(v) ==
    [v EXCEPT !.state = "expired",
              !.children = [i \in 1..Len(v.children) |-> [v.children[i] EXCEPT !.disabled = TRUE]]]

\* A view-all that would build a view from an empty category too.
ViewAllEvenIfEmpty(category) ==
    LET loaded == load_data(category, files[category])
    IN  /\ files' = [files EXCEPT ![category] = loaded.file]
        /\ resp' = Answer("viewall", category, "", "", "paginated")
        /\ view' = ShowView(create_page_embed(
                                PaginatedView(loaded.data, ITEMS_PER_PAGE, category)))
        /\ UNCHANGED <<voice_channels, tasks, loop, env>>

\* get_all_items_sorted(category) is dict(sorted(load_data(category).items())).
\* SearchCategoryView.interaction_check for "{category}_view_all_items".
ViewAll(category) ==
    LET loaded == load_data(category, files[category])
    IN  /\ files' = [files EXCEPT ![category] = loaded.file]
        /\ IF loaded.data = EmptyDict
           THEN /\ resp' = Answer("viewall", category, "", "", "none_available")
                /\ UNCHANGED view
           ELSE /\ resp' = Answer("viewall", category, "", "", "paginated")
                /\ view' = ShowView(create_page_embed(
                                        PaginatedView(loaded.data, ITEMS_PER_PAGE, category)))
        /\ UNCHANGED <<voice_channels, tasks, loop, env>>

\* A page token that would still be handled after the view has timed out.
PageTokenAfterTimeout(custom_id) ==
    /\ view.state # "none"
    /\ view' = ShowView(Navigate(view, custom_id))
    /\ resp' = Answer(custom_id, view.data_file_category, "", "",
                      IF view'.current_page = view.current_page THEN "same_page" ELSE "moved")
    /\ UNCHANGED <<files, voice_channels, tasks, loop, env>>

\* A page token that would list the category anew before it turns the page.
PageTokenReloads(custom_id) ==
    /\ view.state = "active"
    /\ view' = ShowView(Navigate(
                    [view EXCEPT !.item_titles =
                        SortedKeys(DOMAIN Collection(view.data_file_category))],
                    custom_id))
    /\ resp' = Answer(custom_id, view.data_file_category, "", "",
                      IF view'.current_page = view.current_page THEN "same_page" ELSE "moved")
    /\ UNCHANGED <<files, voice_channels, tasks, loop, env>>

\* The view answers the tokens of its buttons while it has not timed out:
\* a view that has timed out is stopped and is handed no interaction.
PageToken(custom_id) ==
    /\ view.state = "active"
    /\ view' = ShowView(Navigate(view, custom_id))
    /\ resp' = Answer(custom_id, view.data_file_category, "", "",
                      IF view'.current_page = view.current_page THEN "same_page" ELSE "moved")
    /\ UNCHANGED <<files, voice_channels, tasks, loop, env>>

\* A select that would serve the items the view was built from.
SelectItemFromCopy(custom_id) ==
    LET category == view.data_file_category
        item_title_lower == ItemTitleOf(category, custom_id)
    IN  /\ view.state = "active"
        /\ IF IsViewItemId(category, custom_id)
           THEN /\ UNCHANGED files
                /\ resp' = IF Has(view.items, item_title_lower)
                           THEN Answer("select", category, item_title_lower,
                                       view.items[item_title_lower], "shown")
                           ELSE Answer("select", category, item_title_lower, "", "not_found")
           ELSE /\ UNCHANGED files
                /\ resp' = Answer("select", category, "", "", "ignored")
        /\ UNCHANGED <<view, voice_channels, tasks, loop, env>>

\* interaction_check for a token that is no page token, lines 215-230: the
\* answer names the title the token was decoded to and carries the entry
\* handed to make_item_embed.
SelectItem(custom_id) ==
    LET category == view.data_file_category
        loaded == load_data(category, files[category])
        item_title_lower == ItemTitleOf(category, custom_id)
    IN  /\ view.state = "active"
        /\ IF IsViewItemId(category, custom_id)
           THEN /\ files' = [files EXCEPT ![category] = loaded.file]
                /\ resp' = IF Has(loaded.data, item_title_lower)
                           THEN Answer("select", category, item_title_lower,
                                       loaded.data[item_title_lower], "shown")
                           ELSE Answer("select", category, item_title_lower, "", "not_found")
           ELSE /\ UNCHANGED files
                /\ resp' = Answer("select", category, "", "", "ignored")
        /\ UNCHANGED <<view, voice_channels, tasks, loop, env>>

\* A user presses one of the item buttons the view shows.
PressItemButton ==
    /\ view.state = "active"
    /\ \E i \in 1..Len(view.children) :
          /\ view.children[i].custom_id \notin {<<"prev_page">>, <<"next_page">>}
          /\ SelectItem(view.children[i].custom_id)

\* The view times out: on_timeout disables its buttons and, if the view
\* has a message, edits it; a failure of that edit is caught and logged
\* (lines 192-196).
Timeout ==
    /\ view.state = "active"
    /\ \E edited \in BOOLEAN :
          /\ view' = IF view.message.sent /\ edited
                     THEN ShowView(on_timeout(view)) ELSE on_timeout(view)
          /\ resp' = Answer("timeout", view.data_file_category, "", "",
                            IF ~view.message.sent THEN "no_message"
                            ELSE IF edited THEN "edited" ELSE "edit_failed")
    /\ UNCHANGED <<files, voice_channels, tasks, loop, env>>

\* The genre menu is built: ItemGenreSelect.__init__ lists the genres.
GenreList(category) ==
    LET r == get_all_genres(category, files)
    IN  /\ files' = r.files
        /\ resp' = Answer("genres", category, "", r.genres, "listed")
        /\ SameRest

\* ItemGenreSelect.callback for a genre of the menu: the entries of the
\* genre are paginated, or none is found.
ItemsByGenre(category, genre) ==
    LET r == get_items_by_genre(category, genre, files)
    IN  /\ files' = r.files
        /\ IF r.items = EmptyDict
           THEN /\ resp' = Answer("by_genre", category, genre, "", "none_found")
                /\ UNCHANGED view
           ELSE /\ resp' = Answer("by_genre", category, genre, "", "paginated")
                /\ view' = ShowView(create_page_embed(
                                        PaginatedView(r.items, ITEMS_PER_PAGE, category)))
        /\ UNCHANGED <<voice_channels, tasks, loop, env>>

\* A user types a title into a command: the titles are offered.
Autocomplete(category, current) ==
    LET r == autocomplete_item_title(category, current, files)
    IN  /\ files' = r.files
        /\ resp' = Answer("autocomplete", category, current, r.choices, "offered")
        /\ SameRest

\* The bounds of the pagination specifications.
MaxItems == 21
MaxPerPage == 3

\* A catalogue of the first n keys.
FirstKeys(n) == [k \in {KeyOrder[i] : i \in 4..(n + 3)} |-> [url |-> "u1", image |-> None]]

\* The views the bot itself builds: the films file holds 0..MaxItems entries.
InitPage ==
    /\ \E n \in 0..MaxItems :
          files = [c \in DATA_FILES |->
                      IF c = "films" THEN ValidFile(FirstKeys(n)) ELSE ValidFile(EmptyDict)]
    /\ resp = NoAnswer
    /\ InitRest

NextPageSpec ==
    \/ \E c \in StoreCats : ViewAll(c)
    \/ \E id \in {"prev_page", "next_page"} : PageToken(id)
    \/ \E t \in {"k01", "k11"} : SelectItem(ViewItemId("films", t))
    \/ Timeout
    \/ \E t \in {"k01", "k11"} : DelItem("films", t)

SpecPage == InitPage /\ [][NextPageSpec]_vars

\* The buttons of a view: films are added under titles that hold the
\* delimiter or the prefix of a token, listed, and their buttons pressed.
TokenTitles == {"k01", "a_b", "x", "view_item_films_x"}

\* Tokens that are neither page tokens nor item tokens of the films view:
\* a text with no prefix, and the token of an item of another category.
ForeignTokens == {<<"bogus">>, ViewItemId("series", "k01")}

InitToken ==
    /\ files = [c \in DATA_FILES |-> MissingFile]
    /\ resp = NoAnswer
    /\ InitRest

NextToken ==
    \/ \E t \in TokenTitles : AddItem("films", t, "u1", None, NoText)
    \/ \E t \in TokenTitles : DelItem("films", t)
    \/ \E c \in {"films", "jeux"} : ViewAll(c)
    \/ PressItemButton
    \/ \E id \in ForeignTokens : SelectItem(id)
    \/ Timeout

SpecToken == InitToken /\ [][NextToken]_vars

\* A film is added, rated and deleted while a view that lists it is open,
\* and its button is pressed.
InitSelect ==
    /\ \E film \in {MissingFile, ValidFile(FirstKeys(1))} :
          files = [c \in DATA_FILES |-> IF c = "films" THEN film ELSE MissingFile]
    /\ resp = NoAnswer
    /\ InitRest

NextSelect ==
    \/ AddItem("films", "k01", "u1", None, NoText)
    \/ \E v \in {"4", "5"} : Rate("films", "k01", v)
    \/ DelItem("films", "k01")
    \/ ViewAll("films")
    \/ PressItemButton
    \/ Timeout

SpecSelect == InitSelect /\ [][NextSelect]_vars

\* The view class on its own: built from any title list, empty included,
\* and any page size.
InitEngine ==
    /\ \E n \in 0..MaxItems, per_page \in 1..MaxPerPage :
          view = create_page_embed(PaginatedView(FirstKeys(n), per_page, "films"))
    /\ files = [c \in DATA_FILES |-> ValidFile(EmptyDict)]
    /\ resp = NoAnswer
    /\ voice_channels = NoChannels
    /\ tasks = NoTasks
    /\ loop = "stopped"
    /\ env = NoEnv

NextEngine ==
    \/ \E id \in {"prev_page", "next_page"} : PageToken(id)
    \/ Timeout

SpecEngine == InitEngine /\ [][NextEngine]_vars

\* The counters: a guild, the two sweepers (the periodic loop, and the
\* handler of the command in flight or on_ready), commands on one film and
\* one series, and edits by hand.
MaxFaults == 1

NoSeries == <<NewName("films", 0), NewName("jeux", 0), NewName("logiciels", 0)>>
InSync == [i \in 1..4 |-> NewName(CategoryOrder[i], 0)]
Untidy == <<OtherName, ChannelName("films", "loose", 0), NewName("films", 1),
            NewName("series", 0), NewName("jeux", 0), ChannelName("logiciels", "bare", 0)>>
ByHand == {ChannelName("films", "loose", 0), OtherName}
OneSeasonFeed == <<FeedEntry("S1", "http://a")>>

InitSweep ==
    /\ files = [c \in DATA_FILES |->
                  IF c = "jeux" THEN MissingFile ELSE ValidFile(EmptyDict)]
    /\ voice_channels \in {NoSeries, InSync, Untidy}
    /\ tasks = NoTasks
    /\ loop = "stopped"
    /\ env = [NoEnv EXCEPT !.faults = MaxFaults]
    /\ resp = NoAnswer
    /\ view = NoView

FilmCommands ==
    \/ Command(add_item("films", "Dune", "u1", None, NoText, files))
    \/ Command(del_item("films", "Dune", files))

SeriesCommands ==
    \/ Command(addserieseason("Foo", 1, "http://a", None, None, NoText, files))
    \/ Command(delserieseason("Foo", 1, files))
    \/ Command(importseries("Foo", OneSeasonFeed, None, NoText, files))

\* By hand: the films counter is renamed or deleted, or a channel is added.
ExternalEdits ==
    \/ \E i \in {FirstMatch(voice_channels, "films")} \ {0}, name \in ByHand :
          ExternalEdit([voice_channels EXCEPT ![i] = name])
    \/ \E i \in {FirstMatch(voice_channels, "films")} \ {0} :
          ExternalEdit([voice_channels EXCEPT ![i] = Deleted])
    \/ \E name \in ByHand : ExternalEdit(Append(voice_channels, name))

NextSweep ==
    \/ OnReady
    \/ PeriodicSweep
    \/ FilmCommands
    \/ \E raises \in BOOLEAN : AnswerSent(raises)
    \/ \E p \in TaskIds, outcome \in Outcomes : CallReturns(p, outcome)
    \/ ExternalEdits

SpecSweep == InitSweep /\ [][NextSweep]_vars

\* The five mutating commands and the sweeps they end with.
NextCommand ==
    \/ OnReady
    \/ PeriodicSweep
    \/ FilmCommands
    \/ SeriesCommands
    \/ \E raises \in BOOLEAN : AnswerSent(raises)
    \/ \E p \in TaskIds, outcome \in Outcomes : CallReturns(p, outcome)

SpecCommand == InitSweep /\ [][NextCommand]_vars

\* The counters with the periodic loop scheduled fairly: the bot gets
\* ready, the loop's iterations keep coming, awaited calls return and
\* answers that can be sent are sent.
NextSweepFair == NextSweep \/ Settle

Fairness ==
    /\ WF_vars(OnReady)
    /\ WF_vars(PeriodicSweep)
    /\ \A p \in TaskIds : WF_vars(\E outcome \in Outcomes : CallReturns(p, outcome))
    /\ WF_vars(\E raises \in BOOLEAN : AnswerSent(raises))

InitSweepFair == InitSweep /\ voice_channels \in {InSync, Untidy}

SpecSweepFair == InitSweepFair /\ [][NextSweepFair]_vars /\ Fairness

\* The operations that only read, among the commands that write: one film
\* and one series, listed, searched, selected, offered and counted.
ReadCats == {"films", "series"}

ReadSteps ==
    \/ \E c \in ReadCats : \E t \in TitlesOf(c) : GetItem(c, t)
    \/ Search("films", " Dune ")
    \/ \E c \in ReadCats : ViewAll(c)
    \/ PressItemButton
    \/ \E c \in ReadCats : GenreList(c)
    \/ \E c \in ReadCats : ItemsByGenre(c, "drama")
    \/ \E c \in ReadCats : Autocomplete(c, "du")
    \/ OnReady
    \/ CallReturns("handler", "ok")

WriteSteps ==
    \/ AddItem("films", "Dune", "u1", None, <<"scifi", " Drama">>)
    \/ \E c \in ReadCats : \E t \in TitlesOf(c) : DelItem(c, t)
    \/ Rate("films", "Dune", "4")
    \/ AddSeason("Foo", 1, "http://a", None, None, NoText)
    \/ DelSeason("Foo", 1)
    \/ ImportSeries("Foo", OneSeasonFeed, None, NoText)

InitRead ==
    /\ \E film \in {CorruptFile, ValidFile(EmptyDict)},
          serie \in {MissingFile, ValidFile([t \in {"foo"} |-> LegacyPlain])} :
          files = [c \in DATA_FILES |->
                      CASE c = "films" -> film [] c = "series" -> serie [] OTHER -> MissingFile]
    /\ voice_channels = NoSeries
    /\ resp = NoAnswer
    /\ view = NoView
    /\ tasks = NoTasks
    /\ loop = "stopped"
    /\ env = NoEnv

NextRead == ReadSteps \/ WriteSteps

SpecRead == InitRead /\ [][NextRead]_vars

\* ------------------------------------------------------- pagination claims

\* C3: a pagination instance the bot built keeps 0 <= currentPage <
\* totalPages through every sequence of prev and next tokens.
C3_PageInRange ==
    view.state # "none" =>
        /\ 0 <= view.current_page
        /\ view.current_page < view.footer.total

\* A next token arrived on the last of three pages and the page stayed.
C3_Witness ==
    /\ view.state = "active"
    /\ resp.op = "next_page" /\ resp.result = "same_page"
    /\ view.footer.total = 3 /\ view.current_page = 2

\* ceil(count / n), and 1 for no items: the least p >= 1 with p * n >= count.
CeilMin1(count, n) == CHOOSE p \in 1..(count + 1) : p * n >= count /\ (p = 1 \/ (p - 1) * n < count)

\* C4: the page count the view renders is ceil(count / n), and 1 when
\* there are no items.
C4_TotalPagesIsCeilMin1 ==
    view.state # "none" =>
        view.footer.total = CeilMin1(Len(view.item_titles), view.items_per_page)

\* ------------------------------------------------------------ store claims

PersistedEntries ==
    UNION {{files[c].data[k] : k \in DOMAIN files[c].data} : c \in DATA_FILES}

Abs(x) == IF x < 0 THEN -x ELSE x

\* r hundredths is the mean of ratings to the nearest hundredth.
IsRoundedMean(r, ratings) ==
    2 * Abs(100 * SumSeq(ratings) - r * Len(ratings)) <= Len(ratings)

\* C1: every persisted entry with a non-empty ratings list has
\* rating = round(mean(ratings), 2), and an entry with no ratings has no
\* rating (or a null one), after any sequence of commands.
C1_RatingIsRoundedMean ==
    \A e \in PersistedEntries :
        IF Get(e, "ratings", <<>>) # <<>>
        THEN Has(e, "rating") /\ IsRoundedMean(e["rating"], e["ratings"])
        ELSE ~Has(e, "rating") \/ e["rating"] = None

\* A film rated 4, 5, 5 (mean 4.666...) is persisted, after a rating was accepted.
C1_Witness ==
    /\ resp.op = "rate" /\ resp.result = "rated"
    /\ \E e \in PersistedEntries :
          /\ Get(e, "ratings", <<>>) = <<4, 5, 5>>
          /\ e["rating"] = 467

\* The inputs on_submit must reject, in the state it runs in.
MustReject(category, item_title, value) ==
    \/ ~IsIntText(value)
    \/ IntOf(value) < 1
    \/ IntOf(value) > 5
    \/ ~Has(Collection(category), Lower(item_title))

\* C2: a rating submission whose value is no integer or outside 1..5, or
\* whose key is absent, is answered with an error and leaves every
\* persisted collection as it was; a valid file is not rewritten at all.
C2_RejectedRatingChangesNothing ==
    [][(resp'.op = "rate" /\ MustReject(resp'.category, resp'.titre, resp'.arg))
        => /\ resp'.result \in {"not_integer", "out_of_range", "not_found"}
           /\ \A c \in DATA_FILES :
                 /\ Collection(c)' = Collection(c)
                 /\ files[c].kind = "valid" => files'[c] = files[c]]_vars

\* A rating of 0 or 6 was rejected while the entry it names exists and has ratings.
C2_Witness ==
    /\ resp.op = "rate" /\ resp.result = "out_of_range"
    /\ resp.arg \in {"0", "6"}
    /\ Has(Collection(resp.category), Lower(resp.titre))
    /\ Get(Collection(resp.category)[Lower(resp.titre)], "ratings", <<>>) # <<>>

LegacyKeys ==
    IF files["series"].kind = "valid"
    THEN {t \in DOMAIN files["series"].data :
            Has(files["series"].data[t], "url") /\ ~Has(files["series"].data[t], "seasons")}
    ELSE {}

\* What a load of the series file returns for a legacy entry, with the
\* season title the claim names.
MigratedAs(t, season_title) ==
    LET old == files["series"].data[t]
        new == Collection("series")[t]
    IN  /\ DOMAIN new = ((DOMAIN old) \ {"url"}) \cup {"seasons"}
        /\ new["seasons"] = <<[number |-> 1, title |-> season_title, url |-> old["url"]]>>
        /\ \A f \in (DOMAIN old) \ {"url"} : new[f] = old[f]

\* C10 as stated: the migrated entry's only season is titled "Season 1".
C10_AsStated == \A t \in LegacyKeys : MigratedAs(t, "Season 1")

\* C10: a load of the series file returns a legacy entry (url, no seasons)
\* with seasons = [{number 1, title "Saison 1", url: the old url}], without
\* url and with every other field unchanged.
C10_LegacyEntryMigrated == \A t \in LegacyKeys : MigratedAs(t, "Saison 1")

\* A legacy entry with an image, themes and ratings is persisted and was loaded.
C10_Witness ==
    /\ resp.op = "get" /\ resp.category = "series" /\ resp.result = "shown"
    /\ \E t \in LegacyKeys : Has(files["series"].data[t], "ratings")

\* C11: the migration is idempotent: a load of a collection that was
\* already migrated returns it unchanged, and a second load of the same
\* series file returns what the first one did.
C11_MigrationIdempotent ==
    LET first == load_data("series", files["series"])
        second == load_data("series", first.file)
    IN  /\ load_data("series", ValidFile(first.data)).data = first.data
        /\ second.data = first.data

\* A legacy entry is persisted, and the series file was loaded by a
\* command that found no entry to show.
C11_Witness ==
    /\ LegacyKeys # {}
    /\ resp.category = "series" /\ resp.op \in {"rate", "del", "delseason"}
    /\ resp.result \in {"out_of_range", "not_found", "season_not_found"}

\* No entry of a series collection has a url and no seasons.
NoLegacy(data) ==
    \A t \in DOMAIN data : ~(Has(data[t], "url") /\ ~Has(data[t], "seasons"))

\* C12: what a load of the series file returns has no entry with a url and
\* no seasons, and neither has the series file once a command has written it.
C12_NoLegacyObserved ==
    /\ [](NoLegacy(Collection("series")))
    /\ [][files'["series"] # files["series"] => NoLegacy(files'["series"].data)]_vars

\* The series file held a legacy entry with an image; a command has loaded
\* it and saved it with seasons.
C12_Witness ==
    /\ resp.category = "series"
    /\ resp.result \in {"rated", "season_set", "imported", "season_deleted"}
    /\ \E t \in DOMAIN files["series"].data :
          /\ Get(files["series"].data[t], "image", None) = "i1"
          /\ Has(files["series"].data[t], "seasons")

\* C13: an add command that names a url only leaves every other field of
\* an entry that already exists (themes, image, rating, ratings) as it was.
C13_AddPreservesOmitted ==
    [][\A c \in DATA_FILES :
          resp'.op = "add" /\ resp'.category = c =>
              \A k \in DOMAIN Collection(c) :
                  \A f \in (DOMAIN Collection(c)[k]) \ {"url"} :
                      /\ Has(Collection(c)'[k], f)
                      /\ Collection(c)'[k][f] = Collection(c)[k][f]]_vars

\* The handlers that have run their load, mutation and save.
Saved == {h \in HandlerIds : tasks[h].pc \in {"answering", "done"}}

\* Two adds of different films were both called before either saved, and
\* both have saved.
AddsOverlapped(a, b) ==
    /\ a \in Saved /\ b \in Saved
    /\ tasks[a].op = "add" /\ tasks[b].op = "add"
    /\ Lower(tasks[a].titre) # Lower(tasks[b].titre)
    /\ ~Has(load_data("films", tasks[a].arrived).data, Lower(tasks[b].titre))
    /\ ~Has(load_data("films", tasks[b].arrived).data, Lower(tasks[a].titre))

\* C14 as stated: of two adds to one category that were in flight
\* together, the one that saved first has lost its entry.
C14_AsStated ==
    \A a, b \in HandlerIds :
        AddsOverlapped(a, b) =>
            ~(/\ Has(Collection("films"), Lower(tasks[a].titre))
              /\ Has(Collection("films"), Lower(tasks[b].titre)))

\* C14: handlers in flight together on one category lose no mutation: the
\* film of every add that has saved is in the collection, and an entry
\* holds one rating for every accepted submission.
C14_NoMutationLost ==
    /\ \A h \in Saved :
          tasks[h].op = "add" => Has(Collection("films"), Lower(tasks[h].titre))
    /\ \A k \in DOMAIN Collection("films") :
          Len(Get(Collection("films")[k], "ratings", <<>>)) =
              Cardinality({h \in Saved : /\ tasks[h].op = "rate"
                                         /\ tasks[h].result = "rated"
                                         /\ Lower(tasks[h].titre) = k})

\* An add was called and deferred, a rating was accepted meanwhile, and the
\* add has saved.
C14_Witness ==
    \E a, b \in HandlerIds :
        /\ a \in Saved /\ tasks[a].op = "add"
        /\ b \in Saved /\ tasks[b].op = "rate" /\ tasks[b].result = "rated"
        /\ tasks[a].arrived = tasks[b].arrived
        /\ Get(Collection("films")["dune"], "ratings", <<>>) = <<4>>
        /\ Has(Collection("films"), Lower(tasks[a].titre))

\* ----------------------------------------------------------- season claims

\* The season numbers of a list go strictly up.
Ascending(seasons) ==
    \A i, j \in 1..Len(seasons) : i < j => seasons[i].number < seasons[j].number

\* C15: a season removal that finds its season removes the whole series
\* key if that was the series' only season; otherwise the series stays, with
\* exactly the other seasons, in ascending order, and nothing else changed.
C15_SeasonRemoval ==
    [][resp'.op = "delseason" /\ resp'.result \in {"series_deleted", "season_deleted"} =>
        \E k \in DOMAIN Collection("series"), n \in SeasonNumbers :
            LET old == Collection("series")
                seasons == old[k]["seasons"]
                rest == SelectSeq(seasons, LAMBDA s : s.number # n)
            IN  /\ \E i \in 1..Len(seasons) : seasons[i].number = n
                /\ IF Len(seasons) = 1
                   THEN /\ resp'.result = "series_deleted"
                        /\ Collection("series")' = Pop(old, k)
                   ELSE /\ resp'.result = "season_deleted"
                        /\ rest # <<>> /\ Ascending(rest)
                        /\ Collection("series")' = Put(old, k, Put(old[k], "seasons", rest))]_vars

\* One season of a series of three or more was removed.
C15_Witness ==
    /\ resp.op = "delseason" /\ resp.result = "season_deleted"
    /\ Len(Collection("series")["foo"]["seasons"]) >= 2

\* The series entries of the series file as it is persisted.
PersistedSeries ==
    {files["series"].data[k] : k \in DOMAIN files["series"].data}

\* C16: after any sequence of addserieseason, importseries and
\* delserieseason, the seasons of every persisted series have pairwise
\* distinct numbers and are in ascending order of number.
C16_SeasonsDistinctAscending ==
    \A e \in PersistedSeries : Has(e, "seasons") => Ascending(e["seasons"])

\* A series with three seasons or more is persisted after a season was
\* added or a feed imported.
C16_Witness ==
    /\ resp.op \in {"addseason", "import"}
    /\ \E e \in PersistedSeries : Has(e, "seasons") /\ Len(e["seasons"]) >= 3

\* C17: every season that addserieseason or importseries persisted has a
\* number of 1 or more.
C17_SeasonNumbersPositive ==
    \A e \in PersistedSeries :
        Has(e, "seasons") => \A i \in 1..Len(e["seasons"]) : e["seasons"][i].number >= 1

\* The title "<word> <n>" of a season.
TitleWith(word, n) ==
    CASE word = "Saison" -> SaisonTitle(n)
      [] word = "Season" -> CASE n = 1 -> "Season 1" [] n = 2 -> "Season 2"

\* One season per pair <<n, url>>, titled "<word> <n>", in ascending order.
ExpectedSeasons(pairs, word) ==
    LET each == {[number |-> pairs[i][1], title |-> TitleWith(word, pairs[i][1]),
                  url |-> pairs[i][2]] : i \in 1..Len(pairs)}
    IN  CHOOSE s \in [1..Len(pairs) -> each] : Ascending(s)

\* What importseries persists for a series that is not there yet, from
\* the feed of pairs, is one season per pair, titled with word.
ImportCreates(pairs, word) ==
    ~Has(Collection("series"), "foo") =>
        LET r == importseries("Foo", FeedOf(pairs), None, NoText, files)
            after == load_data("series", r.files["series"]).data
        IN  /\ Has(after, "foo")
            /\ after["foo"]["seasons"] = ExpectedSeasons(pairs, word)
            /\ \A k \in DOMAIN Collection("series") : after[k] = Collection("series")[k]

\* C18 as stated: the seasons importseries creates are titled "Season <n>".
C18_AsStated == \A pairs \in WellFormedPairs : ImportCreates(pairs, "Season")

\* C18: importseries with a feed of entries "S<n>:<http url>" for distinct
\* n, on a series key that does not exist, creates the series with one
\* season per entry, numbered n, titled "Saison <n>", with its url, in
\* ascending order of number.
C18_ImportCreatesSeasons == \A pairs \in WellFormedPairs : ImportCreates(pairs, "Saison")

\* The feed S2:http://b,S1:http://a was imported and the series holds its
\* two seasons.
C18_Witness ==
    /\ resp.op = "import"
    /\ Has(Collection("series"), "foo")
    /\ Collection("series")["foo"]["seasons"] =
           ExpectedSeasons(<< <<2, "http://b">>, <<1, "http://a">> >>, "Saison")

\* ------------------------------------------------------------- film claims

\* A themes text as the user types it, and its trimmed, lower-cased parts.
ThemeCases ==
    {[text |-> <<"scifi", " Drama">>, parts |-> <<"scifi", "drama">>],
     [text |-> <<" Drama">>, parts |-> <<"drama">>]}

\* C19: a film that is not there yet is added with a themes text; a get by
\* its title in any letter case shows an entry whose themes are the
\* trimmed, lower-cased parts and which has no rating; after ratings r1 and
\* r2 its rating is (r1 + r2) / 2 to two decimals, 4.5 for 4 and 5.
C19_AddGetRate ==
    \A case \in ThemeCases, t \in FilmTitles, r1, r2 \in {"1", "4", "5"} :
        ~Has(Collection("films"), "dune") =>
            LET added == add_item("films", "Dune", "u1", None, case.text, files).files
                got == get_item("films", t, added)
                once == on_submit("films", t, r1, got.files)
                twice == on_submit("films", t, r2, once.files)
                rated == get_item("films", t, twice.files)
            IN  /\ got.result = "shown"
                /\ got.entry["themes"] = case.parts
                /\ Get(got.entry, "rating", None) = None
                /\ once.result = "rated" /\ twice.result = "rated"
                /\ rated.entry["ratings"] = <<IntOf(r1), IntOf(r2)>>
                /\ 2 * rated.entry["rating"] = 100 * (IntOf(r1) + IntOf(r2))
                /\ (r1 = "4" /\ r2 = "5") => rated.entry["rating"] = 450

\* Dune was added with the themes "scifi, Drama", rated 4 and then 5.
C19_Witness ==
    /\ resp.op = "rate" /\ resp.result = "rated" /\ resp.arg = "5"
    /\ Has(Collection("films"), "dune")
    /\ Get(Collection("films")["dune"], "themes", <<>>) = <<"scifi", "drama">>
    /\ Get(Collection("films")["dune"], "ratings", <<>>) = <<4, 5>>
    /\ Collection("films")["dune"]["rating"] = 450

\* ------------------------------------------------------------ token claims

\* C20: the token of every item button of a view decodes to the title the
\* button was made for, whatever the title holds.
C20_TokenRoundTrip ==
    view.state # "none" =>
        LET first == Len(view.children) - Len(view.page_items)
        IN  \A i \in 1..Len(view.page_items) :
                /\ IsViewItemId(view.data_file_category, view.children[first + i].custom_id)
                /\ ItemTitleOf(view.data_file_category, view.children[first + i].custom_id)
                       = view.page_items[i]

\* C21: a token that is no page token is answered, with a detail view or
\* with "not found"; the only tokens the view leaves without an answer are
\* those it cannot decode or that name another category, and for those the
\* claim asks "not found".  The store and the page stay as they were.
C21_ForeignTokenNotFound ==
    [][resp'.op = "select" =>
          /\ resp'.result \in {"shown", "not_found"}
          /\ view' = view
          /\ \A c \in DATA_FILES : Collection(c)' = Collection(c)]_vars

\* C22: a select shows the entry the store holds now under the title of the
\* token, whatever the entry was when the page was built; when the entry
\* is gone the answer is "not found".
C22_SelectShowsStoredEntry ==
    [][resp'.op = "select" /\ resp'.result # "ignored" =>
          LET now == Collection(resp'.category)
          IN  IF Has(now, resp'.titre)
              THEN resp'.result = "shown" /\ resp'.arg = now[resp'.titre]
              ELSE resp'.result = "not_found"]_vars

\* A film was rated after the view that lists it was built, and its button
\* was pressed.
C22_Witness ==
    /\ resp.op = "select" /\ resp.result = "shown"
    /\ view.state = "active"
    /\ view.items[resp.titre] # resp.arg
    /\ Get(resp.arg, "ratings", <<>>) # <<>>

\* Every component of a list is disabled.
AllDisabled(components) == \A i \in 1..Len(components) : components[i].disabled

\* C23 as stated: once a view has expired, every control of the message
\* that shows it is disabled.
C23_AsStated == view.state = "expired" => AllDisabled(view.message.components)

\* C23: a view starts active and expires on timeout; the timeout disables
\* every control of the view and, when the edit of its message succeeds,
\* of the message; an expired view stays as it is, and no token moves its
\* page or is answered with a detail view.
C23_ExpiredIsTerminal ==
    [][/\ (view.state = "none" /\ view'.state # "none") => view'.state = "active"
       /\ (view.state = "active" /\ view'.state = "expired") =>
              /\ AllDisabled(view'.children)
              /\ resp'.result = "edited" => AllDisabled(view'.message.components)
       /\ view.state = "expired" =>
              /\ view' = view \/ (resp'.op = "viewall" /\ view'.state = "active")
              /\ resp' # resp => resp'.op \notin {"select", "prev_page", "next_page"}]_vars

\* A view has expired on its second page, and its message shows the page
\* buttons and the item buttons disabled.
C23_Witness ==
    /\ view.state = "expired" /\ view.current_page > 0
    /\ Len(view.message.components) >= 3
    /\ AllDisabled(view.message.components)

\* C24: a prev token sets the page to max(0, page - 1) and a next token to
\* min(totalPages - 1, page + 1); prev on the first page and next on the
\* last one render the same page again, and both are answered.
C24_PageTokens ==
    [][resp'.op \in {"prev_page", "next_page"} =>
          LET total == CeilMin1(Len(view.item_titles), view.items_per_page)
              page == view.current_page
              boundary == IF resp'.op = "prev_page" THEN page = 0 ELSE page = total - 1
          IN  /\ view'.current_page = IF resp'.op = "prev_page"
                                      THEN Max(0, page - 1)
                                      ELSE Min(total - 1, page + 1)
              /\ view'.footer.page = view'.current_page + 1
              /\ view'.page_items = PageItems(view')
              /\ boundary => /\ view'.current_page = page
                              /\ view'.page_items = view.page_items
                              /\ view'.children = view.children
              /\ resp'.result = IF boundary THEN "same_page" ELSE "moved"]_vars

\* Next was pressed on the last of several pages.
C24_Witness ==
    /\ resp.op = "next_page" /\ resp.result = "same_page"
    /\ view.current_page > 0
    /\ view.current_page = TotalPages(Len(view.item_titles), view.items_per_page) - 1

\* The page buttons and the item buttons of a view, in their order.
PageButtons(v) ==
    SelectSeq(v.children, LAMBDA b : b.custom_id \in {<<"prev_page">>, <<"next_page">>})

ItemButtons(v) ==
    SelectSeq(v.children, LAMBDA b : b.custom_id \notin {<<"prev_page">>, <<"next_page">>})

\* C25: on every page a view renders, prev is disabled exactly on page 0,
\* next exactly on the last page, and there is neither when there is one
\* page only.
C25_PageButtons ==
    view.state = "active" =>
        LET total == CeilMin1(Len(view.item_titles), view.items_per_page)
            nav == PageButtons(view)
        IN  IF total = 1 THEN nav = <<>>
            ELSE /\ Len(nav) = 2
                 /\ nav[1].custom_id = <<"prev_page">>
                 /\ nav[1].disabled <=> view.current_page = 0
                 /\ nav[2].custom_id = <<"next_page">>
                 /\ nav[2].disabled <=> view.current_page = total - 1

\* A view shows a page in the middle: both page buttons are enabled.
C25_Witness ==
    /\ view.state = "active" /\ resp.op = "next_page"
    /\ view.current_page > 0
    /\ view.current_page < TotalPages(Len(view.item_titles), view.items_per_page) - 1
    /\ Len(PageButtons(view)) = 2
    /\ ~PageButtons(view)[1].disabled /\ ~PageButtons(view)[2].disabled

\* The titles of page p: those at the places p*n + 1 .. p*n + n of the
\* sorted list, counted from 1.
TitlesOfPage(v, p) ==
    LET n == v.items_per_page
        places == {i \in 1..Len(v.item_titles) : p * n < i /\ i <= p * n + n}
    IN  [j \in 1..Cardinality(places) |-> v.item_titles[p * n + j]]

\* C26: the item buttons of the page a view renders are those of the
\* titles items[p*n : p*n+n], one button for each with the token of
\* (category, title); over the pages 0..totalPages-1 every title has its
\* button on exactly one page.
C26_ItemButtons ==
    view.state = "active" =>
        LET total == TotalPages(Len(view.item_titles), view.items_per_page)
            page(p) == create_page_embed([view EXCEPT !.current_page = p])
            tokens(v) == [i \in 1..Len(ItemButtons(v)) |-> ItemButtons(v)[i].custom_id]
        IN  /\ tokens(view) =
                   [i \in 1..Len(TitlesOfPage(view, view.current_page)) |->
                       ViewItemId(view.data_file_category,
                                  TitlesOfPage(view, view.current_page)[i])]
            /\ \A k \in 1..Len(view.item_titles) :
                   Cardinality({<<p, i>> \in (0..(total - 1)) \X (1..view.items_per_page) :
                                   /\ i <= Len(tokens(page(p)))
                                   /\ tokens(page(p))[i] =
                                          ViewItemId(view.data_file_category,
                                                     view.item_titles[k])}) = 1

\* A view of several pages shows its last page, which is not full.
C26_Witness ==
    /\ view.state = "active" /\ resp.op = "next_page"
    /\ view.current_page > 0
    /\ view.current_page = TotalPages(Len(view.item_titles), view.items_per_page) - 1
    /\ Len(ItemButtons(view)) >= 1
    /\ Len(ItemButtons(view)) < view.items_per_page

\* A view-all step has started a view on page 0 that lists every key of
\* the category in ascending order.
StartsView(category) ==
    /\ view'.state = "active"
    /\ view'.current_page = 0
    /\ view'.data_file_category = category
    /\ {view'.item_titles[i] : i \in 1..Len(view'.item_titles)} = DOMAIN Collection(category)
    /\ \A i, j \in 1..Len(view'.item_titles) :
          i < j => Rank(view'.item_titles[i]) < Rank(view'.item_titles[j])

\* C27 as stated: a view-all starts a view whatever the number of entries.
C27_AsStated ==
    [][\A c \in DATA_FILES :
          resp'.op = "viewall" /\ resp'.category = c => StartsView(c)]_vars

\* C27: a view-all on a category with entries loads the collection and
\* starts a view, active, on page 0, that lists every key in ascending
\* order; on a category with no entry it answers that none is available
\* and starts no view.
C27_ViewAllStartsView ==
    [][\A c \in DATA_FILES :
          resp'.op = "viewall" /\ resp'.category = c =>
              IF Collection(c) # EmptyDict
              THEN resp'.result = "paginated" /\ StartsView(c)
              ELSE resp'.result = "none_available" /\ view' = view]_vars

\* A view-all has started a view of more than one page.
C27_Witness ==
    /\ resp.op = "viewall" /\ resp.result = "paginated"
    /\ view.state = "active" /\ view.current_page = 0
    /\ Len(view.item_titles) > ITEMS_PER_PAGE

\* ----------------------------------------------------------- search claims

\* A query as it is typed, and the key it stands for once trimmed and
\* lower-cased.
QueryCases ==
    {[text |-> "", key |-> ""], [text |-> "  ", key |-> ""],
     [text |-> " Dune ", key |-> "dune"], [text |-> "dune", key |-> "dune"],
     [text |-> "Foo", key |-> "foo"]}

\* C28: a search whose query is empty or matches no key is answered "no
\* match"; a query that, trimmed and lower-cased, is a key of the category
\* is answered with the detail view of that entry; no search changes a
\* collection, and none writes a valid file.
C28_Search ==
    [][\A case \in QueryCases, c \in DATA_FILES :
          resp'.op = "search" /\ resp'.category = c /\ resp'.titre = case.text =>
              /\ IF case.key # "" /\ Has(Collection(c), case.key)
                 THEN resp'.result = "shown" /\ resp'.arg = Collection(c)[case.key]
                 ELSE resp'.result = "no_match"
              /\ \A d \in DATA_FILES :
                    /\ Collection(d)' = Collection(d)
                    /\ files[d].kind = "valid" => files'[d] = files[d]]_vars

\* A film that has ratings was found by a query with blanks and capitals.
C28_Witness ==
    /\ resp.op = "search" /\ resp.titre = " Dune " /\ resp.result = "shown"
    /\ Get(resp.arg, "ratings", <<>>) # <<>>

\* ------------------------------------------------------------- load claims

\* C29: a load of a category whose file is missing returns the empty
\* collection and leaves a file that holds the empty collection; a second
\* load finds that file and returns the empty collection too.
C29_MissingFileCreated ==
    [][\A c \in DATA_FILES :
          resp'.op = "load" /\ resp'.category = c /\ resp'.titre = "missing" =>
              /\ resp'.arg = EmptyDict
              /\ files'[c] = ValidFile(EmptyDict)
              /\ load_data(c, files'[c]) = [data |-> EmptyDict, file |-> files'[c]]]_vars

\* A load has found the films file missing while another file is blank.
C29_Witness ==
    /\ resp.op = "load" /\ resp.category = "films" /\ resp.titre = "missing"
    /\ files["films"].kind = "valid"
    /\ files["jeux"].kind = "blank"

\* C30: a load of a category whose file is there but holds no collection
\* (text that is no JSON, or JSON that is no object) returns the empty
\* collection and resets the file to the empty collection.
C30_InvalidFileReset ==
    [][\A c \in DATA_FILES :
          resp'.op = "load" /\ resp'.category = c /\ resp'.titre \in {"corrupt", "list"} =>
              /\ resp'.arg = EmptyDict
              /\ files'[c] = ValidFile(EmptyDict)]_vars

\* ----------------------------------------------------- later store claims

\* The collection of a category as a load would find it in the files fs.
CollectionIn(fs, category) == load_data(category, fs[category]).data

\* The files fs and gs hold the same collections.
SameCollections(fs, gs) ==
    \A c \in DATA_FILES : CollectionIn(fs, c) = CollectionIn(gs, c)

\* C31: a delete of an absent key, and a season delete of an absent series
\* or an absent season number, answer "not found" and leave every
\* collection as it was; a delete of a present key removes that key and
\* leaves every other entry and every other category as it was.
C31_Deletes ==
    /\ \A c \in StoreCats : \A t \in DelTitlesOf(c) :
          LET r == del_item(c, t, files)
              old == Collection(c)
          IN  IF ~Has(old, Lower(t))
              THEN r.result = "not_found" /\ SameCollections(files, r.files)
              ELSE /\ r.result = "deleted"
                   /\ CollectionIn(r.files, c) = Pop(old, Lower(t))
                   /\ \A k \in DOMAIN old \ {Lower(t)} :
                         CollectionIn(r.files, c)[k] = old[k]
                   /\ \A d \in DATA_FILES \ {c} : r.files[d] = files[d]
    /\ \A t \in DelSerieTitles, n \in {1, 2} :
          LET r == delserieseason(t, n, files)
              old == Collection("series")
              absent == \/ ~Has(old, Lower(t))
                        \/ SeasonIndex(Get(old[Lower(t)], "seasons", <<>>), n) = 0
          IN  IF absent
              THEN /\ r.result \in {"not_found", "season_not_found"}
                   /\ SameCollections(files, r.files)
              ELSE r.result \in {"series_deleted", "season_deleted"}

\* A film was deleted while another film stays, and a season delete would
\* find a series but not its season.
C31_Witness ==
    /\ resp.op = "del" /\ resp.category = "films" /\ resp.result = "deleted"
    /\ DOMAIN Collection("films") # {}
    /\ \E k \in DOMAIN Collection("series") :
          Len(Collection("series")[k]["seasons"]) = 1

\* The casings of one title that commands are given.
Casings(category) == IF category = "series" THEN {"Foo", "foo"} ELSE {"Dune", "dune"}

\* C32: every key of every persisted collection is lower case; two
\* casings of a title add, get, delete and rate the same single entry, and
\* get, delete and rate find a stored title under any casing.
C32_KeysLowerCase ==
    /\ \A c \in DATA_FILES : files[c].kind = "valid" =>
          \A k \in DOMAIN files[c].data : Lower(k) = k
    /\ \A c \in StoreCats : \A t1, t2 \in Casings(c) :
          /\ get_item(c, t1, files) = get_item(c, t2, files)
          /\ del_item(c, t1, files) = del_item(c, t2, files)
          /\ on_submit(c, t1, "4", files) = on_submit(c, t2, "4", files)
          /\ Has(Collection(c), Lower(t1)) =>
                /\ get_item(c, t2, files).result = "shown"
                /\ del_item(c, t2, files).result = "deleted"
                /\ on_submit(c, t2, "4", files).result = "rated"
    /\ \A t1, t2 \in Casings("films") :
          /\ add_item("films", t1, "u1", None, NoText, files)
                = add_item("films", t2, "u1", None, NoText, files)
          /\ get_item("films", t2,
                       add_item("films", t1, "u1", None, NoText, files).files).result = "shown"
    /\ \A t1, t2 \in Casings("series") :
          /\ addserieseason(t1, 1, "http://a", None, None, NoText, files)
                = addserieseason(t2, 1, "http://a", None, None, NoText, files)
          /\ delserieseason(t1, 1, files) = delserieseason(t2, 1, files)

\* The film stored under "dune" was rated under the title "Dune".
C32_Witness ==
    /\ resp.op = "rate" /\ resp.category = "films" /\ resp.titre = "Dune"
    /\ resp.result = "rated"
    /\ DOMAIN Collection("films") = {"dune"}

\* The rating handlers whose submission was accepted.
Accepted ==
    {h \in Saved : tasks[h].op = "rate" /\ tasks[h].result = "rated"}

\* C33: however the handlers in flight interleave, the ratings of a film
\* that nothing else mutates have grown by one value for every accepted
\* submission, each of them the value submitted.
C33_RatingsGrowByAccepted ==
    LET ratings == IF Has(Collection("films"), "dune")
                   THEN Get(Collection("films")["dune"], "ratings", <<>>) ELSE <<>>
    IN  /\ Len(ratings) = Cardinality(Accepted)
        /\ \A h \in Accepted : \E i \in 1..Len(ratings) : ratings[i] = IntOf(tasks[h].value)
        /\ \A i \in 1..Len(ratings) : \E h \in Accepted : ratings[i] = IntOf(tasks[h].value)

\* Two submissions were accepted, the second before the answer to the
\* first was sent.
C33_Witness ==
    /\ \A h \in HandlerIds : h \in Accepted /\ tasks[h].pc = "answering"
    /\ Get(Collection("films")["dune"], "ratings", <<>>) = <<4, 4>>

\* C35: after any sequence of addserieseason, importseries,
\* delserieseason and delseries, no persisted series has an empty list of
\* seasons.
C35_NoSeriesWithoutSeason ==
    \A e \in PersistedSeries : Has(e, "seasons") => e["seasons"] # <<>>

\* The seasons of the series "foo" in the files fs.
SeasonsIn(fs) ==
    IF Has(CollectionIn(fs, "series"), "foo")
    THEN Get(CollectionIn(fs, "series")["foo"], "seasons", <<>>) ELSE <<>>

\* C36: importseries reports every malformed entry of its feed (no ':',
\* no numeric season number, no http:// or https:// url) and skips it; every
\* well-formed entry of the feed is applied, the last one for a number
\* giving the season its url, and the seasons the feed does not name stay
\* as they were.
C36_MalformedEntriesSkipped ==
    \A feed \in SeasonFeeds :
        LET r == importseries("Foo", feed, None, NoText, files)
            old == SeasonsIn(files)
            new == SeasonsIn(r.files)
            good == {i \in 1..Len(feed) :
                        /\ feed[i].colon
                        /\ feed[i].season_part \in {"S0", "S1", "S2", "s2"}
                        /\ Strip(feed[i].url) \in {"http://a", "http://b", "https://c"}}
            NumberOf(i) == IntOf(SeasonNumberStr(feed[i].season_part))
            named == {NumberOf(i) : i \in good}
        IN  /\ r.result = "imported"
            /\ Len(r.errors) = Len(feed) - Cardinality(good)
            /\ \A i \in good :
                  (\A j \in good : j > i => NumberOf(j) # NumberOf(i)) =>
                      \E k \in 1..Len(new) :
                          new[k] = [number |-> NumberOf(i),
                                    title |-> SaisonTitle(NumberOf(i)),
                                    url |-> Strip(feed[i].url)]
            /\ \A k \in 1..Len(old) :
                  old[k].number \notin named => \E m \in 1..Len(new) : new[m] = old[k]
            /\ \A m \in 1..Len(new) :
                  \/ new[m].number \in named
                  \/ \E k \in 1..Len(old) : new[m] = old[k]

\* A feed of three malformed and two well-formed entries was imported into
\* a series that had a season the feed does not name.
C36_Witness ==
    /\ resp.op = "import" /\ resp.arg = <<"url", "format", "number">>
    /\ {SeasonsIn(files)[k].number : k \in 1..Len(SeasonsIn(files))} = {0, 1, 2}

\* C37: for the life of a pagination instance its title list, its page
\* size and its number of pages stay as they were at creation, whatever
\* page token, select, timeout or catalogue mutation happens; only the
\* current page changes, and only on a page token.
C37_TitleListIsSnapshot ==
    [][view.state # "none" /\ ~(resp'.op = "viewall" /\ resp'.result = "paginated") =>
          /\ view'.item_titles = view.item_titles
          /\ view'.items = view.items
          /\ view'.items_per_page = view.items_per_page
          /\ view'.footer.total = view.footer.total
          /\ TotalPages(Len(view'.item_titles), view'.items_per_page) = view.footer.total
          /\ view'.current_page # view.current_page =>
                resp'.op \in {"prev_page", "next_page"}]_vars

\* The page was turned after a film the view lists had been deleted.
C37_Witness ==
    /\ view.state = "active"
    /\ resp.op = "next_page" /\ resp.result = "moved"
    /\ \E i \in 1..Len(view.item_titles) :
          view.item_titles[i] = "k01" /\ ~Has(Collection("films"), "k01")

\* The file of a category holds a valid collection and this step changes it.
ValidFileChanges(category) ==
    files[category].kind = "valid" /\ files'[category] # files[category]

\* C38: get, select, search, view-all, the genre listings, autocomplete and
\* the sweep leave the file of every category that holds a valid collection
\* as it is; such a file changes only on an add, a delete, a season command
\* or a rating.
C38_ReadsLeaveValidFiles ==
    [][/\ ReadSteps => \A c \in DATA_FILES : ~ValidFileChanges(c)
       /\ (\E c \in DATA_FILES : ValidFileChanges(c)) => WriteSteps]_vars

\* The sweep has counted a catalogue whose series file holds an entry of
\* the old shape, the entry was shown, and the file is as it was.
C38_Witness ==
    /\ resp.op = "get" /\ resp.category = "series" /\ resp.result = "shown"
    /\ files["series"] = ValidFile([t \in {"foo"} |-> LegacyPlain])
    /\ tasks["handler"].pc = "done" /\ tasks["handler"].idx = Len(CategoryOrder) + 1

\* C39: an accepted rating changes the ratings and the rating of its
\* entry and nothing else: the entry keeps every other field, the ratings
\* are the old ones with the value appended, every other entry of the
\* category and every other category is as it was.
C39_RatingChangesOnlyRatings ==
    [][\A c \in DATA_FILES :
          resp'.op = "rate" /\ resp'.result = "rated" /\ resp'.category = c =>
              LET k == Lower(resp'.titre)
                  old == Collection(c)
              IN  /\ DOMAIN Collection(c)' = DOMAIN old
                  /\ \A j \in DOMAIN old \ {k} : Collection(c)'[j] = old[j]
                  /\ DOMAIN Collection(c)'[k] = DOMAIN old[k] \cup {"ratings", "rating"}
                  /\ \A f \in DOMAIN old[k] \ {"ratings", "rating"} :
                        Collection(c)'[k][f] = old[k][f]
                  /\ Collection(c)'[k]["ratings"] =
                        Append(Get(old[k], "ratings", <<>>), IntOf(resp'.arg))
                  /\ \A d \in DATA_FILES \ {c} : files'[d] = files[d]]_vars

\* A film with themes has got its second rating while another film is in
\* the catalogue.
C39_Witness ==
    /\ resp.op = "rate" /\ resp.result = "rated" /\ resp.category = "films"
    /\ DOMAIN Collection("films") = {"dune", "foo"}
    /\ Has(Collection("films")["dune"], "themes")
    /\ Collection("films")["dune"]["ratings"] = <<4, 5>>

\* ---------------------------------------------------------- counter claims

CountOf(category) == Cardinality(DOMAIN Collection(category))

\* The channels a category's pattern recognises.
Displays(category) ==
    {i \in 1..Len(voice_channels) : PatternMatch(voice_channels[i], category)}

\* The first channel the category's pattern recognises is labelled
\* "<base> : <count>" with the count the catalogue holds now.
Labelled(category) ==
    /\ Displays(category) # {}
    /\ \E i \in Displays(category) :
          /\ \A j \in Displays(category) : i <= j
          /\ voice_channels[i] = ChannelName(category, "exact", CountOf(category))

Categories == {CategoryOrder[i] : i \in 1..Len(CategoryOrder)}

\* Task p has gone through the whole sweep.
Completed(p) == tasks[p].pc = "done" /\ tasks[p].idx = Len(CategoryOrder) + 1

C7_FailureNeverAborts ==
    \A p \in TaskIds :
        tasks[p].pc \in {"done", "failed"} /\ tasks[p].idx >= 1 => Completed(p)

\* Every category's first display carries the current count.
AllLabelled == \A c \in Categories : Labelled(c)

\* C8: once the catalogue stops changing and calls stop failing, the
\* periodic sweep brings every category's display to "<base> : <count>", and
\* it stays there.
C8_PeriodicSweepHeals == env.quiet ~> [](AllLabelled)

\* All is quiet and labelled after something had gone wrong.
C8_Witness == env.quiet /\ env.faults < MaxFaults /\ AllLabelled

\* C9: a handler that saved a mutation does not end before it has entered
\* the sweep.
C9_MutationIsSwept ==
    tasks["handler"].mutated /\ tasks["handler"].pc \in {"done", "failed"} =>
        tasks["handler"].idx >= 1

\* C34: sweeps of one guild that interleave at their rename and create
\* calls never give a category that had at most one display a second one.
C34_NoSecondDisplay ==
    [][\A c \in Categories :
          Cardinality(Displays(c)) <= 1 => Cardinality(Displays(c))' <= 1]_vars

====
